---- MODULE Spec2Model ----
(***************************************************************************)
(* xtodo: the outline parser, the file cache, the aggregator and the       *)
(* change-driven invalidator (TodoParser, TodoFileWatcher).                *)
(*                                                                         *)
(* Strings are sequences of characters; a character is a TLA+ string.     *)
(* Objects (TodoItem) live in a heap: a `children` array holds references  *)
(* (heap indices), as a JavaScript array of objects does.                  *)
(***************************************************************************)
EXTENDS Integers, Sequences, FiniteSets, TLC

VARIABLES
  text,             \* parser session: the text of the files being parsed
  groups,           \* parser session: TodoGroup[] built from the parsed files
  inProgressTasks,  \* parser session: result of findInProgressTasks, or NoResult
  editor,           \* the active TextEditor on the document `text`, and its last command
  activeView,       \* TodoActiveProvider: the nodes getChildren has returned, and for what
  fs,               \* file system: path -> [exists, content, mtime]
  clock,            \* file system: the latest modification time handed out
  fileContentCache, \* TodoParser.fileContentCache (a Map: entries in insertion order)
  fileParseCache,   \* TodoParser.fileParseCache (a Map: entries in insertion order)
  calls,            \* the parseTodoFile calls: slot -> call record with its position
  started,          \* number of parseTodoFile calls made so far
  readCount,        \* number of fs.promises.readFile calls issued
  parseCount,       \* number of times a text was parsed
  cleared,          \* history, where it is kept: the paths cleared and not parsed since
  todoCache,        \* TodoFileWatcher.todoCache: the names of the groups it holds
  isRefreshing,     \* TodoFileWatcher.isRefreshing
  pendingRefresh,   \* TodoFileWatcher.pendingRefresh
  debounceTimer,    \* TodoFileWatcher.debounceTimer: a timer handle, 0 for undefined
  timers,           \* armed debounce timers: [id, due]
  trampolines,      \* armed setTimeout(() => this.refreshCache(), 0) timers
  refreshes,        \* refreshCache calls awaiting findAllTodoFiles: [id, origin]
  now,              \* the time, in ms
  events,           \* number of notifications and calls received so far
  refreshStarted,   \* number of refreshCache calls made so far
  burst,            \* history: the current burst of notifications and its outcome
  window,           \* history: the requests deferred into pendingRefresh
  refreshCallbacks, \* TodoFileWatcher.refreshCallbacks: [fn, reg], reg the handle it came with
  notifyTimers,     \* armed setTimeout(..., 0) timers of notifyRefreshCallbacks
  handles,          \* the Disposables onDidRefresh returned: [fn, disposed]
  notified,         \* history: the callbacks the last notification invoked
  snapshotHeld,     \* history: a refresh completed and invalidateCache has not run since
  fresh,            \* history: the refreshes started before the last invalidation, and the one held
  pass,             \* the notification pass in progress: the loop's position, and its history
  workspaceFolders, \* vscode.workspace.workspaceFolders
  todoFolders,      \* the setting xtodo.todoFolders
  tree,             \* the files on disk (paths as sequences of segments)
  found             \* what findAllTodoFiles last resolved to, or NoFound

parserVars == <<text, groups, inProgressTasks, editor, activeView>>

cacheVars == <<fs, clock, fileContentCache, fileParseCache, calls, started,
              readCount, parseCount, cleared>>

watcherVars == <<todoCache, isRefreshing, pendingRefresh, debounceTimer, timers,
                trampolines, refreshes, now, events, refreshStarted, burst, window,
                refreshCallbacks, notifyTimers, handles, notified, pass, snapshotHeld,
                fresh>>

aggVars == <<workspaceFolders, todoFolders, tree, found>>

vars == <<text, groups, inProgressTasks, editor, activeView,
          fs, clock, fileContentCache, fileParseCache, calls, started,
          readCount, parseCount, cleared,
          todoCache, isRefreshing, pendingRefresh, debounceTimer, timers,
          trampolines, refreshes, now, events, refreshStarted, burst, window,
          refreshCallbacks, notifyTimers, handles, notified, pass, snapshotHeld, fresh,
          workspaceFolders, todoFolders, tree, found>>

(***************************************************************************)
(* Characters                                                              *)
(***************************************************************************)
SP == "SP"
TAB == "TAB"
CR == "CR"
LF == "LF"

\* The characters String.prototype.trim / trimStart remove.
WhiteSpace == {SP, TAB, CR, LF}

\* enum TodoStatus: the value of each member is its one-character glyph.
NotStarted == <<"glyph-notstarted">>
InProgress == <<"glyph-inprogress">>
Completed == <<"glyph-completed">>

\* The query's result before it has run.
NoResult == [done |-> FALSE, list |-> <<>>]

\* The JavaScript value undefined where a status or a field is expected.
Undefined == <<"undefined">>

\* What a command returned and the message it showed; none has run yet.
NoCommand == [returned |-> FALSE, message |-> ""]

\* The active-tasks view has shown nothing yet.
NoView == [shown |-> {}, expanded |-> {}]

\* No toggle has run yet.
NoToggles == [line |-> 0, origin |-> Undefined, count |-> 0]

\* No editor is open.
NoEditor ==
  [languageId |-> "", cursor |-> 0, commands |-> 0, refreshPending |-> FALSE,
   last |-> NoCommand, toggles |-> NoToggles]

(***************************************************************************)
(* The state of a component no operation has touched yet                   *)
(***************************************************************************)
ParserIdle ==
  /\ text = <<>>
  /\ groups = <<>>
  /\ inProgressTasks = NoResult
  /\ editor = NoEditor
  /\ activeView = NoView

NoBurst ==
  [size |-> 0, last |-> 0, started |-> 0, startedAt |-> 0, deferred |-> 0,
   deferredIdle |-> FALSE, interrupted |-> FALSE]

NoWindow == [requests |-> 0, followUps |-> 0]

\* Nothing was invalidated yet (-1 refreshes had started before), no refresh
\* has stored its result (`latest` is the last started of those that have)
\* and no notification has run (`notifiedOf` is `latest` when the last ran).
NoSnapshot == [invalidatedAt |-> -1, snapshotOf |-> 0, latest |-> 0, notifiedOf |-> 0]

\* No notification has run yet.
NoRun == [ran |-> FALSE, calls |-> <<>>]

\* No notification pass is running.
NoPass == [running |-> FALSE, index |-> 0, atStart |-> {}, calls |-> <<>>]

\* The TodoFileWatcher as constructed.
WatcherIdle ==
  /\ todoCache = <<>>
  /\ isRefreshing = FALSE
  /\ pendingRefresh = FALSE
  /\ debounceTimer = 0
  /\ timers = {}
  /\ trampolines = 0
  /\ refreshes = {}
  /\ now = 0
  /\ events = 0
  /\ refreshStarted = 0
  /\ burst = NoBurst
  /\ window = NoWindow
  /\ refreshCallbacks = <<>>
  /\ notifyTimers = 0
  /\ handles = <<>>
  /\ notified = NoRun
  /\ pass = NoPass
  /\ snapshotHeld = FALSE
  /\ fresh = NoSnapshot

NoWorkspace == [defined |-> FALSE, list |-> <<>>]

\* No history of clearCache calls is kept.
NoClears == [tracking |-> FALSE, paths |-> {}]

NoFound == [done |-> FALSE, groups |-> <<>>, failed |-> {}, order |-> <<>>]

AggregatorIdle ==
  /\ workspaceFolders = NoWorkspace
  /\ todoFolders = <<>>
  /\ tree = {}
  /\ found = NoFound

CacheIdle ==
  /\ fs = <<>>
  /\ clock = 0
  /\ fileContentCache = <<>>
  /\ fileParseCache = <<>>
  /\ calls = <<>>
  /\ started = 0
  /\ readCount = 0
  /\ parseCount = 0
  /\ cleared = NoClears

(***************************************************************************)
(* String helpers (JavaScript semantics)                                   *)
(***************************************************************************)
RECURSIVE TrimStart(_)
TrimStart(s) ==
  IF s # <<>> /\ Head(s) \in WhiteSpace THEN TrimStart(Tail(s)) ELSE s

RECURSIVE TrimEnd(_)
TrimEnd(s) ==
  IF s # <<>> /\ s[Len(s)] \in WhiteSpace
  THEN TrimEnd(SubSeq(s, 1, Len(s) - 1))
  ELSE s

Trim(s) == TrimEnd(TrimStart(s))

StartsWith(s, prefix) ==
  Len(s) >= Len(prefix) /\ SubSeq(s, 1, Len(prefix)) = prefix

Substring(s, from) == SubSeq(s, from + 1, Len(s))

\* content.split(/\r?\n/): cur is the line being accumulated.
RECURSIVE SplitLines(_, _)
SplitLines(s, cur) ==
  IF s = <<>> THEN <<cur>>
  ELSE IF Head(s) = LF THEN <<cur>> \o SplitLines(Tail(s), <<>>)
  ELSE IF Head(s) = CR /\ Len(s) >= 2 /\ s[2] = LF
       THEN <<cur>> \o SplitLines(Tail(Tail(s)), <<>>)
  ELSE SplitLines(Tail(s), Append(cur, Head(s)))

\* path.basename of a path held as its sequence of segments.
Basename(p) == IF p = <<>> THEN "" ELSE p[Len(p)]

(***************************************************************************)
(* Outline parser: the body of lines.forEach in parseTodoFile              *)
(***************************************************************************)
\* let status = NotStarted; if / else if / else if on startsWith.
LineStatus(trimmedLine) ==
  IF StartsWith(trimmedLine, NotStarted) THEN NotStarted
  ELSE IF StartsWith(trimmedLine, InProgress) THEN InProgress
  ELSE IF StartsWith(trimmedLine, Completed) THEN Completed
  ELSE NotStarted

\* let content = trimmedLine; replaced by substring(glyph.length).trim().
LineContent(trimmedLine) ==
  IF StartsWith(trimmedLine, NotStarted)
  THEN Trim(Substring(trimmedLine, Len(NotStarted)))
  ELSE IF StartsWith(trimmedLine, InProgress)
  THEN Trim(Substring(trimmedLine, Len(InProgress)))
  ELSE IF StartsWith(trimmedLine, Completed)
  THEN Trim(Substring(trimmedLine, Len(Completed)))
  ELSE trimmedLine

\* Mutant: pops only the deeper entries, so an equal indentation is a parent.
RECURSIVE PopParentsKeepEqual(_, _, _)
PopParentsKeepEqual(currentParents, heap, indentLevel) ==
  IF Len(currentParents) > 0
     /\ heap[currentParents[Len(currentParents)]].indentLevel > indentLevel
  THEN PopParentsKeepEqual(SubSeq(currentParents, 1, Len(currentParents) - 1),
                           heap, indentLevel)
  ELSE currentParents

\* while (currentParents.length > 0 && top.indentLevel >= indentLevel) pop().
RECURSIVE PopParents(_, _, _)
PopParents(currentParents, heap, indentLevel) ==
  IF Len(currentParents) > 0
     /\ heap[currentParents[Len(currentParents)]].indentLevel >= indentLevel
  THEN PopParents(SubSeq(currentParents, 1, Len(currentParents) - 1),
                  heap, indentLevel)
  ELSE currentParents

\* Mutant: a child is pushed to `items` as well as to its parent's children.
ParseLineAlsoTopLevel(st, line, index, filePath) ==
  IF Trim(line) = <<>> THEN st
  ELSE
    LET trimmedLine == TrimStart(line)
        indentLevel == Len(line) - Len(trimmedLine)
        todoItem == [content |-> LineContent(trimmedLine),
                     status |-> LineStatus(trimmedLine),
                     children |-> <<>>,
                     filePath |-> filePath,
                     lineNumber |-> index,
                     indentLevel |-> indentLevel]
        ref == Len(st.heap) + 1
        heap1 == Append(st.heap, todoItem)
        parents == PopParents(st.currentParents, st.heap, indentLevel)
    IN IF Len(parents) = 0
       THEN [heap |-> heap1,
             items |-> Append(st.items, ref),
             currentParents |-> Append(parents, ref)]
       ELSE [heap |-> [heap1 EXCEPT ![parents[Len(parents)]].children =
                                       Append(@, ref)],
             items |-> Append(st.items, ref),
             currentParents |-> Append(parents, ref)]

\* Mutant: a child is put in front of its parent's children (unshift).
ParseLineUnshift(st, line, index, filePath) ==
  IF Trim(line) = <<>> THEN st
  ELSE
    LET trimmedLine == TrimStart(line)
        indentLevel == Len(line) - Len(trimmedLine)
        todoItem == [content |-> LineContent(trimmedLine),
                     status |-> LineStatus(trimmedLine),
                     children |-> <<>>,
                     filePath |-> filePath,
                     lineNumber |-> index,
                     indentLevel |-> indentLevel]
        ref == Len(st.heap) + 1
        heap1 == Append(st.heap, todoItem)
        parents == PopParents(st.currentParents, st.heap, indentLevel)
    IN IF Len(parents) = 0
       THEN [heap |-> heap1,
             items |-> Append(st.items, ref),
             currentParents |-> Append(parents, ref)]
       ELSE [heap |-> [heap1 EXCEPT ![parents[Len(parents)]].children =
                                       <<ref>> \o @],
             items |-> st.items,
             currentParents |-> Append(parents, ref)]

\* Mutant: a blank line ends the nesting (currentParents is emptied).
ParseLineBlankResets(st, line, index, filePath) ==
  IF Trim(line) = <<>> THEN [st EXCEPT !.currentParents = <<>>]
  ELSE
    LET trimmedLine == TrimStart(line)
        indentLevel == Len(line) - Len(trimmedLine)
        todoItem == [content |-> LineContent(trimmedLine),
                     status |-> LineStatus(trimmedLine),
                     children |-> <<>>,
                     filePath |-> filePath,
                     lineNumber |-> index,
                     indentLevel |-> indentLevel]
        ref == Len(st.heap) + 1
        heap1 == Append(st.heap, todoItem)
        parents == PopParents(st.currentParents, st.heap, indentLevel)
    IN IF Len(parents) = 0
       THEN [heap |-> heap1,
             items |-> Append(st.items, ref),
             currentParents |-> Append(parents, ref)]
       ELSE [heap |-> [heap1 EXCEPT ![parents[Len(parents)]].children =
                                       Append(@, ref)],
             items |-> st.items,
             currentParents |-> Append(parents, ref)]

\* One iteration of lines.forEach((line, index) => ...); st holds the heap of
\* the items created so far, `items` and `currentParents`.
ParseLine(st, line, index, filePath) ==
  IF Trim(line) = <<>> THEN st
  ELSE
    LET trimmedLine == TrimStart(line)
        indentLevel == Len(line) - Len(trimmedLine)
        todoItem == [content |-> LineContent(trimmedLine),
                     status |-> LineStatus(trimmedLine),
                     children |-> <<>>,
                     filePath |-> filePath,
                     lineNumber |-> index,
                     indentLevel |-> indentLevel]
        ref == Len(st.heap) + 1
        heap1 == Append(st.heap, todoItem)
        parents == PopParents(st.currentParents, st.heap, indentLevel)
    IN IF Len(parents) = 0
       THEN [heap |-> heap1,
             items |-> Append(st.items, ref),
             currentParents |-> Append(parents, ref)]
       ELSE [heap |-> [heap1 EXCEPT ![parents[Len(parents)]].children =
                                       Append(@, ref)],
             items |-> st.items,
             currentParents |-> Append(parents, ref)]

\* Mutant: the line numbers start at 1.
RECURSIVE ParseLinesOneBased(_, _, _, _)
ParseLinesOneBased(st, lines, i, filePath) ==
  IF i > Len(lines) THEN st
  ELSE ParseLinesOneBased(ParseLine(st, lines[i], i, filePath), lines, i + 1, filePath)

RECURSIVE ParseLines(_, _, _, _)
ParseLines(st, lines, i, filePath) ==
  IF i > Len(lines) THEN st
  ELSE ParseLines(ParseLine(st, lines[i], i - 1, filePath), lines, i + 1, filePath)

\* From content.split to the TodoFile literal: the parse of one file's text.
ParseContent(content, filePath, group) ==
  LET lines == SplitLines(content, <<>>)
      st == ParseLines([heap |-> <<>>, items |-> <<>>, currentParents |-> <<>>],
                       lines, 1, filePath)
  IN [path |-> filePath,
      name |-> Basename(filePath),
      items |-> st.items,
      group |-> group,
      heap |-> st.heap]

(***************************************************************************)
(* Grouping and the active-task query                                      *)
(***************************************************************************)
GroupIndex(gs, groupName) ==
  IF \E i \in 1..Len(gs) : gs[i].name = groupName
  THEN CHOOSE i \in 1..Len(gs) : gs[i].name = groupName
  ELSE 0

\* if (!groups.has(groupName)) groups.set(groupName, {name, files: []});
\* groups.get(groupName).files.push(todoFileObj)  -- a Map keeps insertion order.
AddToGroups(gs, groupName, todoFileObj) ==
  LET i == GroupIndex(gs, groupName)
  IN IF i = 0
     THEN Append(gs, [name |-> groupName, files |-> <<todoFileObj>>])
     ELSE [gs EXCEPT ![i].files = Append(@, todoFileObj)]

RECURSIVE hasInProgressChildren(_, _)
RECURSIVE AnyChildInProgress(_, _, _)
\* for (const child of task.children) if (child.status === InProgress || rec) return true
AnyChildInProgress(heap, children, k) ==
  IF k > Len(children) THEN FALSE
  ELSE IF heap[children[k]].status = InProgress
          \/ hasInProgressChildren(heap, children[k])
       THEN TRUE
       ELSE AnyChildInProgress(heap, children, k + 1)

hasInProgressChildren(heap, task) ==
  IF Len(heap[task].children) > 0
  THEN AnyChildInProgress(heap, heap[task].children, 1)
  ELSE FALSE

\* Mutant: only the item's own status counts (no bubbling).
TaskQualifiesOwnOnly(file, task) ==
  file.heap[task].status = InProgress

\* task.status === TodoStatus.InProgress || this.hasInProgressChildren(task)
TaskQualifies(file, task) ==
  file.heap[task].status = InProgress \/ hasInProgressChildren(file.heap, task)

\* for (const task of file.items) if (...) inProgressTasks.push({group, file, task})
RECURSIVE CollectTopLevel(_, _, _)
CollectTopLevel(groupName, file, k) ==
  IF k > Len(file.items) THEN <<>>
  ELSE (IF TaskQualifies(file, file.items[k])
        THEN <<[group |-> groupName, file |-> file, task |-> file.items[k]]>>
        ELSE <<>>)
       \o CollectTopLevel(groupName, file, k + 1)

\* Mutant: only the first file of a group is looked at.
CollectFilesFirstOnly(group, k) ==
  IF k > Len(group.files) \/ k > 1 THEN <<>>
  ELSE CollectTopLevel(group.name, group.files[k], 1)

RECURSIVE CollectFiles(_, _)
CollectFiles(group, k) ==
  IF k > Len(group.files) THEN <<>>
  ELSE CollectTopLevel(group.name, group.files[k], 1) \o CollectFiles(group, k + 1)

\* Mutant: the groups are visited last to first.
RECURSIVE CollectGroupsReversed(_, _)
CollectGroupsReversed(gs, k) ==
  IF k > Len(gs) THEN <<>>
  ELSE CollectGroupsReversed(gs, k + 1) \o CollectFiles(gs[k], 1)

RECURSIVE CollectGroups(_, _)
CollectGroups(gs, k) ==
  IF k > Len(gs) THEN <<>>
  ELSE CollectFiles(gs[k], 1) \o CollectGroups(gs, k + 1)

findInProgressTasks(gs) == CollectGroups(gs, 1)

(***************************************************************************)
(* The earlier revision of parseTodoFile (no cache): read, parse, or the   *)
(* empty TodoFile when the read throws.                                    *)
(***************************************************************************)
ReadError == <<"ReadError">>

\* Mutant: the empty file forgets the group it was asked for.
createEmptyTodoFileNoGroup(filePath, group) ==
  [path |-> filePath,
   name |-> Basename(filePath),
   items |-> <<>>,
   group |-> "",
   heap |-> <<>>]

createEmptyTodoFile(filePath, group) ==
  [path |-> filePath,
   name |-> Basename(filePath),
   items |-> <<>>,
   group |-> group,
   heap |-> <<>>]

\* readResult is the text readFile yields, or ReadError when it throws.
parseTodoFileUncached(filePath, group, readResult) ==
  IF readResult = ReadError
  THEN createEmptyTodoFile(filePath, group)
  ELSE ParseContent(readResult, filePath, group)

(***************************************************************************)
(* Parser session: one text, parsed as up to MaxFiles files that are       *)
(* grouped, then queried for the active tasks.                             *)
(***************************************************************************)
MaxLines == 4
MaxFiles == 2

RECURSIVE Join(_, _)
Join(lines, sep) ==
  IF lines = <<>> THEN <<>>
  ELSE IF Len(lines) = 1 THEN lines[1]
  ELSE lines[1] \o sep \o Join(Tail(lines), sep)

IndentStrings == {<<>>, <<TAB>>, <<SP, SP>>}

\* Lines that exercise the nesting: an indentation and a short task.
StructLines ==
  {<<>>} \cup
  {ind \o body : ind \in IndentStrings,
                 body \in {<<"a">>, InProgress \o <<SP, "b">>}}

\* Lines that exercise the status recognition: glyph or none, separator or
\* none, a label that may hold a glyph, trailing whitespace.
RichLines ==
  {ind \o glyph \o sep \o label \o trail :
     ind \in {<<>>, <<SP>>},
     glyph \in {<<>>, NotStarted, InProgress, Completed},
     sep \in {<<>>, <<SP>>},
     label \in {<<>>, <<"a">>, <<"a", SP>> \o InProgress},
     trail \in {<<>>, <<SP>>}}

SeqsUpTo(S, n) == UNION {[1..k -> S] : k \in 0..n}

StructTexts == {Join(ls, <<LF>>) : ls \in SeqsUpTo(StructLines, MaxLines)}

RichTexts ==
  {Join(pre \o <<r>> \o post, sep) :
     pre \in SeqsUpTo(StructLines, 1),
     r \in RichLines,
     post \in SeqsUpTo(StructLines, 1),
     sep \in {<<LF>>, <<CR, LF>>}}

Texts == StructTexts \cup RichTexts

GroupNames == {"work", "home"}

SessionPath(k) == <<"ws", "todo", ToString(k)>>

NumFiles(gs) ==
  Cardinality({<<i, j>> \in (1..Len(gs)) \X (1..MaxFiles + 1) :
                 j <= Len(gs[i].files)})

InitParser ==
  /\ text \in Texts
  /\ groups = <<>>
  /\ inProgressTasks = NoResult
  /\ editor = NoEditor
  /\ activeView = NoView
  /\ CacheIdle
  /\ WatcherIdle
  /\ AggregatorIdle

\* await parseTodoFile(path, groupName); groups.get(groupName).files.push(...)
ParseFile(g) ==
  /\ NumFiles(groups) < MaxFiles
  /\ inProgressTasks = NoResult
  /\ groups' = AddToGroups(groups, g,
                 parseTodoFileUncached(SessionPath(NumFiles(groups) + 1), g, text))
  /\ UNCHANGED <<text, inProgressTasks, editor, activeView>>
  /\ UNCHANGED cacheVars
  /\ UNCHANGED watcherVars
  /\ UNCHANGED aggVars

FindInProgress ==
  /\ inProgressTasks = NoResult
  /\ inProgressTasks' = [done |-> TRUE, list |-> findInProgressTasks(groups)]
  /\ UNCHANGED <<text, groups, editor, activeView>>
  /\ UNCHANGED cacheVars
  /\ UNCHANGED watcherVars
  /\ UNCHANGED aggVars

NextParser ==
  \/ \E g \in GroupNames : ParseFile(g)
  \/ FindInProgress

SpecParser == InitParser /\ [][NextParser]_vars

(***************************************************************************)
(* Properties of the outline parser                                        *)
(***************************************************************************)
FilesOf(gs) == {gs[i].files[j] : <<i, j>> \in
                  {ij \in (1..Len(gs)) \X (1..MaxFiles + 1) :
                     ij[2] <= Len(gs[ij[1]].files)}}

Occurs(seq, x) == \E k \in 1..Len(seq) : seq[k] = x

\* The items that list r among their children.
ParentsOf(file, r) == {q \in 1..Len(file.heap) : Occurs(file.heap[q].children, r)}

\* The items on an earlier line with a strictly smaller indentation.
ShallowerBefore(file, r) ==
  {q \in 1..Len(file.heap) :
     /\ file.heap[q].lineNumber < file.heap[r].lineNumber
     /\ file.heap[q].indentLevel < file.heap[r].indentLevel}

NearestShallower(file, r) ==
  CHOOSE q \in ShallowerBefore(file, r) :
    \A q2 \in ShallowerBefore(file, r) :
      file.heap[q2].lineNumber <= file.heap[q].lineNumber

\* C1: in every parsed file, the parent of each item is the item of the
\* nearest preceding line whose indentLevel is strictly smaller than the
\* item's own, and an item with no such line is top-level (and has no parent).
\* An item on a preceding line of equal indentation is never the parent.
C1_ParentIsNearestShallower ==
  \A file \in FilesOf(groups) :
    \A r \in 1..Len(file.heap) :
      IF ShallowerBefore(file, r) = {}
      THEN Occurs(file.items, r) /\ ParentsOf(file, r) = {}
      ELSE /\ ~Occurs(file.items, r)
           /\ ParentsOf(file, r) = {NearestShallower(file, r)}

\* The spec's example: A (0), B (2), C (2), D (0) gives A.children = [B, C]
\* and D top-level.
C1_Witness ==
  \E file \in FilesOf(groups) :
    /\ Len(file.heap) = 4
    /\ [k \in 1..4 |-> file.heap[k].indentLevel] = <<0, 2, 2, 0>>
    /\ file.items = <<1, 4>>
    /\ file.heap[1].children = <<2, 3>>
    /\ file.heap[2].children = <<>>

Glyphs == {NotStarted, InProgress, Completed}

NonWsPositions(line) == {k \in 1..Len(line) : line[k] \notin WhiteSpace}

Min(S) == CHOOSE x \in S : \A y \in S : x <= y

Max(S) == CHOOSE x \in S : \A y \in S : y <= x

\* s without its leading and trailing whitespace, by positions.
Stripped(s) ==
  IF NonWsPositions(s) = {} THEN <<>>
  ELSE SubSeq(s, Min(NonWsPositions(s)), Max(NonWsPositions(s)))

FirstNonWs(line) == <<line[Min(NonWsPositions(line))]>>

ExpectedStatus(line) ==
  IF FirstNonWs(line) \in Glyphs THEN FirstNonWs(line) ELSE NotStarted

ExpectedContent(line) ==
  IF FirstNonWs(line) \in Glyphs
  THEN Stripped(SubSeq(line, Min(NonWsPositions(line)) + 1, Len(line)))
  ELSE Stripped(line)

\* C2: every non-blank line of the text has an item (at that line number)
\* whose status is decided by the line's first non-whitespace character
\* alone: the glyph's status and the trimmed text after the glyph, or
\* NotStarted and the whole trimmed line when that character is no glyph.
C2_StatusFromFirstCharacter ==
  \A file \in FilesOf(groups) :
    LET lines == SplitLines(text, <<>>)
    IN \A i \in 1..Len(lines) :
         NonWsPositions(lines[i]) # {} =>
           \E r \in 1..Len(file.heap) :
             /\ file.heap[r].lineNumber = i - 1
             /\ file.heap[r].status = ExpectedStatus(lines[i])
             /\ file.heap[r].content = ExpectedContent(lines[i])

(***************************************************************************)
(* Properties of the active-task query                                     *)
(***************************************************************************)
ChildSet(file, S) ==
  {c \in 1..Len(file.heap) : \E q \in S : Occurs(file.heap[q].children, c)}

\* The items reachable from S through at most n further `children` steps.
RECURSIVE ReachFrom(_, _, _)
ReachFrom(file, S, n) ==
  IF n = 0 THEN S
  ELSE ReachFrom(file, S \cup ChildSet(file, S), n - 1)

\* The descendants of r at any depth.
Descendants(file, r) == ReachFrom(file, ChildSet(file, {r}), Len(file.heap))

\* r is in progress itself or has an in-progress descendant.
Active(file, r) ==
  \/ file.heap[r].status = InProgress
  \/ \E d \in Descendants(file, r) : file.heap[d].status = InProgress

Reported(groupName, file, r) ==
  \E k \in 1..Len(inProgressTasks.list) :
    inProgressTasks.list[k] = [group |-> groupName, file |-> file, task |-> r]

GroupFiles == {<<groups[i].name, groups[i].files[j]>> : <<i, j>> \in
                 {ij \in (1..Len(groups)) \X (1..MaxFiles + 1) :
                    ij[2] <= Len(groups[ij[1]].files)}}

\* C9: a top-level item is reported by findInProgressTasks if and only if
\* its own status is InProgress or one of its descendants, at any depth, has
\* status InProgress.
C9_TopLevelBubbling ==
  inProgressTasks.done =>
    \A gf \in GroupFiles :
      \A k \in 1..Len(gf[2].items) :
        Reported(gf[1], gf[2], gf[2].items[k]) <=> Active(gf[2], gf[2].items[k])

\* A reported top-level item that is not in progress and has no in-progress
\* child (a deeper descendant is), next to a top-level item that is not
\* reported.
C9_Witness ==
  /\ inProgressTasks.done
  /\ \E gf \in GroupFiles :
       \E k1, k2 \in 1..Len(gf[2].items) :
         LET t == gf[2].items[k1]
             u == gf[2].items[k2]
         IN /\ Reported(gf[1], gf[2], t)
            /\ gf[2].heap[t].status # InProgress
            /\ \A c \in ChildSet(gf[2], {t}) : gf[2].heap[c].status # InProgress
            /\ ~Reported(gf[1], gf[2], u)

\* C10 as stated: the list holds every item, at any depth, of every file,
\* that is in progress or has an in-progress descendant.
C10_EveryDepthListed ==
  inProgressTasks.done =>
    \A gf \in GroupFiles :
      \A r \in 1..Len(gf[2].heap) :
        Active(gf[2], r) => Reported(gf[1], gf[2], r)

\* C10, amended: the list holds every top-level item of every file of every
\* group that is in progress or has an in-progress descendant, and every
\* entry of the list is a top-level item of its file (an item below the top
\* level is never listed itself).
C10_EveryTopLevelListed ==
  inProgressTasks.done =>
    /\ \A gf \in GroupFiles :
         \A k \in 1..Len(gf[2].items) :
           Active(gf[2], gf[2].items[k]) => Reported(gf[1], gf[2], gf[2].items[k])
    /\ \A k \in 1..Len(inProgressTasks.list) :
         LET en == inProgressTasks.list[k]
         IN /\ <<en.group, en.file>> \in GroupFiles
            /\ Occurs(en.file.items, en.task)

\* Two files of one group, each with a listed top-level item and a nested
\* in-progress item that is not listed.
C10_Witness ==
  /\ inProgressTasks.done
  /\ \E g \in 1..Len(groups) :
       /\ Len(groups[g].files) >= 2
       /\ \A j \in 1..Len(groups[g].files) :
            LET file == groups[g].files[j]
            IN \E r \in 1..Len(file.heap) :
                 /\ file.heap[r].status = InProgress
                 /\ ~Occurs(file.items, r)
                 /\ ~Reported(groups[g].name, file, r)
                 /\ \E k \in 1..Len(file.items) :
                      /\ r \in Descendants(file, file.items[k])
                      /\ Reported(groups[g].name, file, file.items[k])

\* Where an entry of the list comes from: the index of its group, of its
\* file in the group and of its item among the file's top-level items.
Origins(entry) ==
  {gjk \in (1..Len(groups)) \X (1..MaxFiles + 1) \X (1..MaxLines + 1) :
     /\ groups[gjk[1]].name = entry.group
     /\ gjk[2] <= Len(groups[gjk[1]].files)
     /\ groups[gjk[1]].files[gjk[2]] = entry.file
     /\ gjk[3] <= Len(entry.file.items)
     /\ entry.file.items[gjk[3]] = entry.task}

\* Group order, then file order in the group, then item order in the file.
Before(a, b) ==
  \/ a[1] < b[1]
  \/ a[1] = b[1] /\ a[2] < b[2]
  \/ a[1] = b[1] /\ a[2] = b[2] /\ a[3] < b[3]

CacheCap == 100
\* Array.from(cache.keys()).slice(0, 10)
EvictCount == 10

MaxCalls == 3
MaxClock == 3

\* Two callers may have a call on the same path in flight at once: the
\* aggregator's fan-out and a view that parses its files itself.
Slots == {1, 2}

CachePaths == {<<"ws", "work", "a.todo">>}

CacheTexts == {<<"a">>,
               InProgress \o <<SP, "b", LF, SP, SP>> \o Completed \o <<SP, "c">>}

\* Map.has / Map.get / Map.set / Map.delete on a Map held as its entries in
\* insertion order; set on a present key keeps the entry's place.
MapHas(m, key) == \E k \in 1..Len(m) : m[k].key = key

MapIndex(m, key) == CHOOSE k \in 1..Len(m) : m[k].key = key

MapGet(m, key) == m[MapIndex(m, key)]

MapSet(m, entry) ==
  IF MapHas(m, entry.key)
  THEN [m EXCEPT ![MapIndex(m, entry.key)] = entry]
  ELSE Append(m, entry)

\* Mutant: the whole Map is emptied.
MapDeleteAll(m, key) == <<>>

MapDelete(m, key) == SelectSeq(m, LAMBDA en : en.key # key)

\* Mutant: the 10 keys inserted last are deleted.
EvictNewest(m) ==
  IF Len(m) > CacheCap THEN SubSeq(m, 1, Len(m) - EvictCount) ELSE m

\* if (cache.size > 100) delete the 10 keys inserted first.
Evict(m) ==
  IF Len(m) > CacheCap THEN SubSeq(m, EvictCount + 1, Len(m)) ELSE m

\* Mutant: a cached parse is served whatever its mtime.
ParseCacheValidAnyMtime(cache, filePath, mtime) == MapHas(cache, filePath)

\* Mutant: a cached parse is never served.
ParseCacheValidNever(cache, filePath, mtime) == FALSE

\* cachedParse && cachedParse.mtime === mtime
ParseCacheValid(cache, filePath, mtime) ==
  MapHas(cache, filePath) /\ MapGet(cache, filePath).mtime = mtime

\* cachedContent && cachedContent.mtime === mtime
ContentCacheValid(cache, filePath, mtime) ==
  MapHas(cache, filePath) /\ MapGet(cache, filePath).mtime = mtime

Missing == [exists |-> FALSE, content |-> <<>>, mtime |-> 0]

\* A slot in which no call runs and none has returned.
IdleCall ==
  [filePath |-> <<>>, group |-> "", pc |-> "idle",
   stats |-> [ok |-> FALSE, mtime |-> 0],
   data |-> ReadError,
   overlapped |-> FALSE,
   afterClear |-> FALSE,
   how |-> "idle",
   ret |-> createEmptyTodoFile(<<>>, "")]

InitCache ==
  /\ fs \in [CachePaths ->
               {[exists |-> TRUE, content |-> t, mtime |-> 1] : t \in CacheTexts}
               \cup {Missing}]
  /\ clock = 1
  /\ fileContentCache = <<>>
  /\ fileParseCache = <<>>
  /\ calls = [c \in Slots |-> IdleCall]
  /\ started = 0
  /\ readCount = 0
  /\ parseCount = 0
  /\ cleared = NoClears
  /\ ParserIdle
  /\ WatcherIdle
  /\ AggregatorIdle

InFlight(c) == calls[c].pc \notin {"idle", "done"}

\* Every call on path p that has not returned is overlapped by a change of p.
MarkOverlapped(p) ==
  [c \in Slots |->
     IF InFlight(c) /\ calls[c].filePath = p
     THEN [calls[c] EXCEPT !.overlapped = TRUE]
     ELSE calls[c]]

\* The file is written (or created): new content, a new modification time.
Modify(p, t) ==
  /\ clock < MaxClock
  /\ clock' = clock + 1
  /\ fs' = [fs EXCEPT ![p] = [exists |-> TRUE, content |-> t, mtime |-> clock + 1]]
  /\ calls' = MarkOverlapped(p)
  /\ UNCHANGED <<fileContentCache, fileParseCache, started, readCount, parseCount, cleared>>
  /\ UNCHANGED parserVars
  /\ UNCHANGED watcherVars
  /\ UNCHANGED aggVars

\* The file is deleted: stat and readFile fail from now on.
Delete(p) ==
  /\ fs[p].exists
  /\ fs' = [fs EXCEPT ![p] = Missing]
  /\ calls' = MarkOverlapped(p)
  /\ UNCHANGED <<clock, fileContentCache, fileParseCache, started, readCount, parseCount, cleared>>
  /\ UNCHANGED parserVars
  /\ UNCHANGED watcherVars
  /\ UNCHANGED aggVars

\* parseTodoFile(filePath, group) is called: it runs to `await stat`.
Call(c, p, g) ==
  /\ started < MaxCalls
  /\ ~InFlight(c)
  /\ \A c2 \in Slots : c2 < c => calls[c2].pc # "idle"
  /\ started' = started + 1
  /\ calls' = [calls EXCEPT ![c] =
       [filePath |-> p, group |-> g, pc |-> "stat",
        stats |-> [ok |-> FALSE, mtime |-> 0],
        data |-> ReadError,
        overlapped |-> FALSE,
        afterClear |-> p \in cleared.paths,
        how |-> "pending",
        ret |-> createEmptyTodoFile(p, g)]]
  /\ cleared' = [cleared EXCEPT !.paths = @ \ {p}]
  /\ UNCHANGED <<fs, clock, fileContentCache, fileParseCache, readCount, parseCount>>
  /\ UNCHANGED parserVars
  /\ UNCHANGED watcherVars
  /\ UNCHANGED aggVars

\* fs.promises.stat(filePath).catch(() => null) settles.
StatSettles(c) ==
  /\ calls[c].pc = "stat"
  /\ calls' = [calls EXCEPT ![c].pc = "statted",
                            ![c].stats = [ok |-> fs[calls[c].filePath].exists,
                                          mtime |-> fs[calls[c].filePath].mtime]]
  /\ UNCHANGED <<fs, clock, fileContentCache, fileParseCache, started, readCount, parseCount, cleared>>
  /\ UNCHANGED parserVars
  /\ UNCHANGED watcherVars
  /\ UNCHANGED aggVars

Return(c, todoFile, how) ==
  [calls EXCEPT ![c].pc = "done", ![c].ret = todoFile, ![c].how = how]

\* The call resumes after `await stat` and runs to its return or to
\* `await readFile`.
StatResume(c) ==
  /\ calls[c].pc = "statted"
  /\ LET filePath == calls[c].filePath
         group == calls[c].group
         mtime == calls[c].stats.mtime
     IN IF ~calls[c].stats.ok
        THEN /\ calls' = Return(c, createEmptyTodoFile(filePath, group), "empty")
             /\ UNCHANGED <<fileContentCache, fileParseCache, readCount, parseCount>>
        ELSE IF ParseCacheValid(fileParseCache, filePath, mtime)
        THEN /\ calls' = Return(c, MapGet(fileParseCache, filePath).result, "parseCache")
             /\ UNCHANGED <<fileContentCache, fileParseCache, readCount, parseCount>>
        ELSE IF ContentCacheValid(fileContentCache, filePath, mtime)
        THEN LET todoFile == ParseContent(MapGet(fileContentCache, filePath).content,
                                          filePath, group)
             IN /\ fileParseCache' =
                     Evict(MapSet(fileParseCache,
                                  [key |-> filePath, result |-> todoFile, mtime |-> mtime]))
                /\ calls' = Return(c, todoFile, "contentCache")
                /\ parseCount' = parseCount + 1
                /\ UNCHANGED <<fileContentCache, readCount>>
        ELSE /\ calls' = [calls EXCEPT ![c].pc = "read"]
             /\ readCount' = readCount + 1
             /\ UNCHANGED <<fileContentCache, fileParseCache, parseCount>>
  /\ UNCHANGED <<fs, clock, started, cleared>>
  /\ UNCHANGED parserVars
  /\ UNCHANGED watcherVars
  /\ UNCHANGED aggVars

\* fs.promises.readFile(filePath, 'utf8') settles: the text, or a rejection.
ReadSettles(c) ==
  /\ calls[c].pc = "read"
  /\ calls' = [calls EXCEPT ![c].pc = "readDone",
                            ![c].data = IF fs[calls[c].filePath].exists
                                        THEN fs[calls[c].filePath].content
                                        ELSE ReadError]
  /\ UNCHANGED <<fs, clock, fileContentCache, fileParseCache, started, readCount, parseCount, cleared>>
  /\ UNCHANGED parserVars
  /\ UNCHANGED watcherVars
  /\ UNCHANGED aggVars

\* The call resumes after `await readFile`: the catch block, or both caches
\* are stored and the parsed file returned.
ReadResume(c) ==
  /\ calls[c].pc = "readDone"
  /\ LET filePath == calls[c].filePath
         group == calls[c].group
         mtime == calls[c].stats.mtime
         content == calls[c].data
     IN IF content = ReadError
        THEN /\ calls' = Return(c, createEmptyTodoFile(filePath, group), "empty")
             /\ UNCHANGED <<fileContentCache, fileParseCache, parseCount>>
        ELSE LET todoFile == ParseContent(content, filePath, group)
             IN /\ fileContentCache' =
                     Evict(MapSet(fileContentCache,
                                  [key |-> filePath, content |-> content, mtime |-> mtime]))
                /\ fileParseCache' =
                     Evict(MapSet(fileParseCache,
                                  [key |-> filePath, result |-> todoFile, mtime |-> mtime]))
                /\ parseCount' = parseCount + 1
                /\ calls' = Return(c, todoFile, "read")
  /\ UNCHANGED <<fs, clock, started, readCount, cleared>>
  /\ UNCHANGED parserVars
  /\ UNCHANGED watcherVars
  /\ UNCHANGED aggVars

\* History: the caches were cleared for the paths ps.
MarkCleared(ps) ==
  IF cleared.tracking THEN [cleared EXCEPT !.paths = @ \cup ps] ELSE cleared

\* clearCache(filePath)
\* Mutant: only the content cache drops the path.
ClearCachePathContentOnly(p) ==
  /\ fileContentCache' = MapDelete(fileContentCache, p)
  /\ UNCHANGED fileParseCache
  /\ cleared' = MarkCleared({p})
  /\ UNCHANGED <<fs, clock, calls, started, readCount, parseCount>>
  /\ UNCHANGED parserVars
  /\ UNCHANGED watcherVars
  /\ UNCHANGED aggVars

ClearCachePath(p) ==
  /\ fileContentCache' = MapDelete(fileContentCache, p)
  /\ fileParseCache' = MapDelete(fileParseCache, p)
  /\ cleared' = MarkCleared({p})
  /\ UNCHANGED <<fs, clock, calls, started, readCount, parseCount>>
  /\ UNCHANGED parserVars
  /\ UNCHANGED watcherVars
  /\ UNCHANGED aggVars

\* clearCache()
ClearCacheAll ==
  /\ fileContentCache' = <<>>
  /\ fileParseCache' = <<>>
  /\ cleared' = MarkCleared(DOMAIN fs)
  /\ UNCHANGED <<fs, clock, calls, started, readCount, parseCount>>
  /\ UNCHANGED parserVars
  /\ UNCHANGED watcherVars
  /\ UNCHANGED aggVars

NextCache ==
  \/ \E p \in CachePaths : \E t \in CacheTexts : Modify(p, t)
  \/ \E p \in CachePaths : Delete(p)
  \/ \E c \in Slots : \E p \in CachePaths : \E g \in GroupNames : Call(c, p, g)
  \/ \E c \in Slots : StatSettles(c)
  \/ \E c \in Slots : StatResume(c)
  \/ \E c \in Slots : ReadSettles(c)
  \/ \E c \in Slots : ReadResume(c)
  \/ \E p \in CachePaths : ClearCachePath(p)
  \/ ClearCacheAll

SpecCache == InitCache /\ [][NextCache]_vars

\* How often x is listed in seq.
OccCount(seq, x) == Cardinality({k \in 1..Len(seq) : seq[k] = x})

\* How often r is listed in the children lists of the file's items.
ChildOcc(file, r) ==
  Cardinality({qk \in (1..Len(file.heap)) \X (1..Len(file.heap)) :
                 /\ qk[2] <= Len(file.heap[qk[1]].children)
                 /\ file.heap[qk[1]].children[qk[2]] = r})

TopLevelSet(file) == {file.items[k] : k \in 1..Len(file.items)}

\* The items of the result, at all depths.
AllItems(file) == ReachFrom(file, TopLevelSet(file), Len(file.heap))

\* C13: every non-blank line of the text yields exactly one item and a blank
\* line none; every item is listed exactly once, in the top-level sequence
\* or in the children of one parent; no item is its own descendant; the
\* items at all depths are as many as the non-blank lines.
C13_ForestOfAllLines ==
  \A file \in FilesOf(groups) :
    LET lines == SplitLines(text, <<>>)
        nonBlank == {i \in 1..Len(lines) : NonWsPositions(lines[i]) # {}}
    IN /\ \A i \in 1..Len(lines) :
            Cardinality({r \in AllItems(file) : file.heap[r].lineNumber = i - 1})
              = IF i \in nonBlank THEN 1 ELSE 0
       /\ \A r \in AllItems(file) :
            /\ OccCount(file.items, r) + ChildOcc(file, r) = 1
            /\ r \notin Descendants(file, r)
       /\ Cardinality(AllItems(file)) = Cardinality(nonBlank)

\* A text with a blank line between a parent and its two children, and an
\* unmarked line among them.
C13_Witness ==
  \E file \in FilesOf(groups) :
    /\ Cardinality(AllItems(file)) = 3
    /\ Len(SplitLines(text, <<>>)) = 4
    /\ Len(file.items) = 1
    /\ Len(file.heap[file.items[1]].children) = 2
    /\ \E r \in AllItems(file) : file.heap[r].content = <<"a">>

\* The lines of t, by positions: cut at every LF, a CR in front of that LF
\* dropped.
LfPositions(t) == {k \in 1..Len(t) : t[k] = LF}

LineStart(t, i) ==
  IF i = 1 THEN 1
  ELSE 1 + CHOOSE k \in LfPositions(t) :
             Cardinality({j \in LfPositions(t) : j <= k}) = i - 1

LineEnd(t, i) ==
  IF i > Cardinality(LfPositions(t)) THEN Len(t)
  ELSE LET lf == CHOOSE k \in LfPositions(t) :
                   Cardinality({j \in LfPositions(t) : j <= k}) = i
       IN IF lf - 1 >= LineStart(t, i) /\ t[lf - 1] = CR THEN lf - 2 ELSE lf - 1

OriginalLine(t, i) == SubSeq(t, LineStart(t, i), LineEnd(t, i))

\* C14: each item's lineNumber is the 0-based index, among all lines of the
\* text (blank ones counted), of the line it was built from: that line is
\* not blank and has the item's indentation, status and content.
C14_LineNumberIsOriginalIndex ==
  \A file \in FilesOf(groups) :
    \A r \in AllItems(file) :
      LET n == file.heap[r].lineNumber
      IN /\ n \in 0..Cardinality(LfPositions(text))
         /\ LET line == OriginalLine(text, n + 1)
            IN /\ NonWsPositions(line) # {}
               /\ file.heap[r].indentLevel = Min(NonWsPositions(line)) - 1
               /\ file.heap[r].status = ExpectedStatus(line)
               /\ Stripped(file.heap[r].content) = ExpectedContent(line)

\* An item after a skipped blank line, the lines ended by CR LF.
C14_Witness ==
  \E file \in FilesOf(groups) :
    \E r \in AllItems(file) :
      /\ file.heap[r].lineNumber = 2
      /\ Cardinality(AllItems(file)) = 2
      /\ \E k \in 1..Len(text) : text[k] = CR

StrictlyIncreasing(file, seq) ==
  \A j, k \in 1..Len(seq) :
    j < k => file.heap[seq[j]].lineNumber < file.heap[seq[k]].lineNumber

\* Depth-first pre-order of the items listed in seq; fuel bounds the depth.
RECURSIVE Preorder(_, _, _)
Preorder(file, seq, fuel) ==
  IF seq = <<>> \/ fuel = 0 THEN <<>>
  ELSE <<Head(seq)>>
         \o Preorder(file, file.heap[Head(seq)].children, fuel - 1)
         \o Preorder(file, Tail(seq), fuel)

\* C15: the top-level sequence and every children list are in increasing
\* lineNumber order, and the pre-order traversal of the forest visits all
\* items in strictly increasing lineNumber order.
C15_LineOrderPreserved ==
  \A file \in FilesOf(groups) :
    /\ StrictlyIncreasing(file, file.items)
    /\ \A r \in AllItems(file) : StrictlyIncreasing(file, file.heap[r].children)
    /\ LET visit == Preorder(file, file.items, Len(file.heap) + 1)
       IN /\ Len(visit) = Cardinality(AllItems(file))
          /\ StrictlyIncreasing(file, visit)

\* Two children under a parent that is followed by another top-level item.
C15_Witness ==
  \E file \in FilesOf(groups) :
    /\ Len(file.items) = 2
    /\ Len(file.heap[file.items[1]].children) = 2
    /\ Preorder(file, file.items, Len(file.heap) + 1) = <<1, 2, 3, 4>>

(***************************************************************************)
(* Editing session: the document gains and loses blank lines and is        *)
(* parsed again                                                            *)
(***************************************************************************)
MaxEditLines == 3

BlankLines == {<<>>, <<SP, SP>>, <<TAB>>}

Separators == {<<LF>>, <<CR, LF>>}

EditLines == {<<"a">>, <<TAB, "a">>, <<SP, SP>> \o InProgress \o <<SP, "b">>}

\* Texts without a blank line, of fewer than MaxEditLines lines.
EditTexts ==
  {Join(ls, sep) : ls \in SeqsUpTo(EditLines, MaxEditLines - 1), sep \in Separators}

NumLines(t) == Cardinality(LfPositions(t)) + 1

\* Every file of gs parsed again from the text t.
Reparse(gs, t) ==
  [i \in 1..Len(gs) |->
     [gs[i] EXCEPT !.files =
        [j \in 1..Len(gs[i].files) |->
           parseTodoFileUncached(gs[i].files[j].path, gs[i].files[j].group, t)]]]

InitEdit ==
  /\ text \in EditTexts
  /\ groups = <<>>
  /\ inProgressTasks = NoResult
  /\ editor = NoEditor
  /\ activeView = NoView
  /\ CacheIdle
  /\ WatcherIdle
  /\ AggregatorIdle

\* The file is parsed for the first time.
OpenAndParse(g) ==
  /\ groups = <<>>
  /\ ParseFile(g)

\* A blank line b is typed in front of line k + 1 (or after the last line),
\* the document saved and parsed again.
InsertBlankLine(k, b, sep) ==
  /\ NumLines(text) < MaxEditLines
  /\ k \in 0..NumLines(text)
  /\ text' = IF k = NumLines(text) THEN text \o sep \o b
             ELSE SubSeq(text, 1, LineStart(text, k + 1) - 1) \o b \o sep
                    \o SubSeq(text, LineStart(text, k + 1), Len(text))
  /\ groups' = Reparse(groups, text')
  /\ UNCHANGED <<inProgressTasks, editor, activeView>>
  /\ UNCHANGED cacheVars
  /\ UNCHANGED watcherVars
  /\ UNCHANGED aggVars

\* The blank line k is deleted with its line break, the document saved and
\* parsed again.
RemoveBlankLine(k) ==
  /\ k \in 1..NumLines(text)
  /\ NumLines(text) > 1
  /\ NonWsPositions(OriginalLine(text, k)) = {}
  /\ text' = IF k < NumLines(text)
             THEN SubSeq(text, 1, LineStart(text, k) - 1)
                    \o SubSeq(text, LineStart(text, k + 1), Len(text))
             ELSE SubSeq(text, 1, LineEnd(text, k - 1))
  /\ groups' = Reparse(groups, text')
  /\ UNCHANGED <<inProgressTasks, editor, activeView>>
  /\ UNCHANGED cacheVars
  /\ UNCHANGED watcherVars
  /\ UNCHANGED aggVars

NextEdit ==
  \/ \E g \in GroupNames : OpenAndParse(g)
  \/ \E k \in 0..MaxEditLines : \E b \in BlankLines : \E sep \in Separators :
       InsertBlankLine(k, b, sep)
  \/ \E k \in 1..MaxEditLines : RemoveBlankLine(k)

SpecEdit == InitEdit /\ [][NextEdit]_vars

(***************************************************************************)
(* TodoActiveProvider: the tree of the active tasks.  A TodoNode is kept   *)
(* as its type, group, file (by its path) and task (by its place in the    *)
(* file's heap, 0 for none).                                               *)
(***************************************************************************)
\* getChildren() without an element: the root of the tree.
RootElement == [type |-> "root", group |-> "", path |-> <<>>, task |-> 0]

\* new TodoNode('没有进行中的任务', None, 'task'): the placeholder of an
\* empty view, a node of type task that carries no task.
EmptyNode == [type |-> "task", group |-> "", path |-> <<>>, task |-> 0]

GroupNode(groupName) == [type |-> "group", group |-> groupName, path |-> <<>>, task |-> 0]

TaskNode(groupName, path, task) ==
  [type |-> "task", group |-> groupName, path |-> path, task |-> task]

\* element.file, the TodoFile of the last refresh.
FileOfPath(path) == CHOOSE file \in FilesOf(groups) : file.path = path

\* getNodeFromCache(task) or, without one, a new node that is cached: the
\* cache is keyed by the TodoItem object, i.e. by file and place.
NodeFor(groupName, path, task) ==
  LET cached == {n \in activeView.shown : n.type = "task" /\ n.task # 0
                                           /\ n.path = path /\ n.task = task}
  IN IF cached # {} THEN CHOOSE n \in cached : TRUE
     ELSE TaskNode(groupName, path, task)

\* for (const {group} of this.activeTasksCache) groupMap.set(group, []): the
\* keys of the map in insertion order.
RECURSIVE GroupKeys(_, _, _)
GroupKeys(list, k, keys) ==
  IF k > Len(list) THEN keys
  ELSE GroupKeys(list, k + 1,
                 IF Occurs(keys, list[k].group) THEN keys
                 ELSE Append(keys, list[k].group))

\* Mutant: a child is shown only when it is in progress itself.
ChildShownOwnOnly(file, childTask) ==
  file.heap[childTask].status = InProgress

\* childTask.status === TodoStatus.InProgress || this.hasInProgressChildren(childTask);
\* the provider's hasInProgressChildren is the parser's, line for line.
ChildShown(file, childTask) ==
  file.heap[childTask].status = InProgress
    \/ hasInProgressChildren(file.heap, childTask)

\* TodoActiveProvider.getChildren(element): the nodes in the order returned.
getChildren(element) ==
  IF element = RootElement
  THEN LET keys == GroupKeys(inProgressTasks.list, 1, <<>>)
       IN IF Len(keys) = 0 THEN <<EmptyNode>>
          ELSE [k \in 1..Len(keys) |-> GroupNode(keys[k])]
  ELSE IF element.type = "group"
  THEN LET entries == SelectSeq(inProgressTasks.list,
                                LAMBDA en : en.group = element.group)
       IN [k \in 1..Len(entries) |->
             NodeFor(entries[k].group, entries[k].file.path, entries[k].task)]
  ELSE IF /\ element.type = "task"
          /\ element.task # 0
          /\ Len(FileOfPath(element.path).heap[element.task].children) > 0
  THEN LET file == FileOfPath(element.path)
           childTasks == SelectSeq(file.heap[element.task].children,
                                   LAMBDA childTask : ChildShown(file, childTask))
       IN [k \in 1..Len(childTasks) |->
             NodeFor(element.group, element.path, childTasks[k])]
  ELSE <<>>

\* collapsibleState: the tree asks for the children of the root, of a group
\* (Expanded) and of a task with children (Collapsed), not of a node with
\* state None.
Collapsible(element) ==
  \/ element = RootElement
  \/ element.type = "group"
  \/ /\ element.type = "task"
     /\ element.task # 0
     /\ Len(FileOfPath(element.path).heap[element.task].children) > 0

\* The tree shows the children of an element: the root when the view is
\* drawn after a refresh, a group or a task when it is expanded.
GetChildren(element) ==
  /\ inProgressTasks.done
  /\ element \in ({RootElement} \cup activeView.shown) \ activeView.expanded
  /\ Collapsible(element)
  /\ activeView' =
       [shown |-> activeView.shown
                    \cup {getChildren(element)[k] : k \in 1..Len(getChildren(element))},
        expanded |-> activeView.expanded \cup {element}]
  /\ UNCHANGED <<text, groups, inProgressTasks, editor>>
  /\ UNCHANGED cacheVars
  /\ UNCHANGED watcherVars
  /\ UNCHANGED aggVars

\* The text of the files the view is drawn from.
InitActive ==
  /\ text \in StructTexts
  /\ groups = <<>>
  /\ inProgressTasks = NoResult
  /\ editor = NoEditor
  /\ activeView = NoView
  /\ CacheIdle
  /\ WatcherIdle
  /\ AggregatorIdle

\* refresh(): the files are found and parsed, findInProgressTasks fills
\* activeTasksCache, the change event fires and the tree asks for the nodes.
NextActive ==
  \/ \E g \in GroupNames : ParseFile(g)
  \/ FindInProgress
  \/ \E element \in {RootElement} \cup activeView.shown : GetChildren(element)

SpecActive == InitActive /\ [][NextActive]_vars

\* The nodes of the view that carry a task.
ShownTasks == {n \in activeView.shown : n.type = "task" /\ n.task # 0}

\* Every node that can be expanded has been.
FullyExpanded ==
  /\ RootElement \in activeView.expanded
  /\ \A n \in activeView.shown : Collapsible(n) => n \in activeView.expanded

\* The items r descends from.
AncestorsOf(file, r) == {q \in 1..Len(file.heap) : r \in Descendants(file, q)}

\* C40: every node of the view that carries a task is in progress or has an
\* in-progress descendant; for every in-progress item of every file, the
\* item and each of its ancestors is, when top-level, in the list of
\* findInProgressTasks and among the children of its group node (itself a
\* child of the root), and else among the children the view returns for its
\* parent; and once every node is expanded, the view shows every in-progress
\* item.
C40_NoActiveBranchHidden ==
  /\ \A n \in ShownTasks : Active(FileOfPath(n.path), n.task)
  /\ inProgressTasks.done =>
       \A gf \in GroupFiles :
         \A r \in 1..Len(gf[2].heap) :
           gf[2].heap[r].status = InProgress =>
             /\ \A q \in {r} \cup AncestorsOf(gf[2], r) :
                  IF Occurs(gf[2].items, q)
                  THEN /\ Reported(gf[1], gf[2], q)
                       /\ Occurs(getChildren(RootElement), GroupNode(gf[1]))
                       /\ Occurs(getChildren(GroupNode(gf[1])),
                                 TaskNode(gf[1], gf[2].path, q))
                  ELSE \A p \in ParentsOf(gf[2], q) :
                         Occurs(getChildren(TaskNode(gf[1], gf[2].path, p)),
                                TaskNode(gf[1], gf[2].path, q))
             /\ FullyExpanded => TaskNode(gf[1], gf[2].path, r) \in ShownTasks

\* A fully expanded view shows, below a top-level item that is not in
\* progress, a child that is not in progress either with its in-progress
\* child, and hides a sibling without active items.
C40_Witness ==
  /\ FullyExpanded
  /\ \E n \in ShownTasks :
       LET file == FileOfPath(n.path)
       IN /\ ~Occurs(file.items, n.task)
          /\ file.heap[n.task].status # InProgress
          /\ \E p \in ParentsOf(file, n.task) :
               /\ file.heap[p].status # InProgress
               /\ \E c \in ChildSet(file, {p}) :
                    TaskNode(n.group, n.path, c) \notin ShownTasks

(***************************************************************************)
(* TodoEditor: the status commands of the editor and of the views          *)
(***************************************************************************)
MaxDocLines == 2

MaxCommands == 3

\* The lines of a TextDocument: the text is cut at CR LF, CR and LF, and
\* each line is kept with the line break that ends it.
RECURSIVE DocLines(_, _)
DocLines(s, cur) ==
  IF s = <<>> THEN <<[text |-> cur, eol |-> <<>>]>>
  ELSE IF Head(s) = CR /\ Len(s) >= 2 /\ s[2] = LF
       THEN <<[text |-> cur, eol |-> <<CR, LF>>]>> \o DocLines(Tail(Tail(s)), <<>>)
  ELSE IF Head(s) \in {CR, LF}
       THEN <<[text |-> cur, eol |-> <<Head(s)>>]>> \o DocLines(Tail(s), <<>>)
  ELSE DocLines(Tail(s), Append(cur, Head(s)))

\* document.lineCount
LineCount(t) == Len(DocLines(t, <<>>))

\* document.lineAt(n).text
LineAt(t, n) == DocLines(t, <<>>)[n + 1].text

\* document.getText() of the lines.
RECURSIVE GetText(_)
GetText(lines) ==
  IF lines = <<>> THEN <<>>
  ELSE Head(lines).text \o Head(lines).eol \o GetText(Tail(lines))

\* editBuilder.replace(line.range, newLine), the edit applied.
Replace(t, n, newLine) ==
  GetText([DocLines(t, <<>>) EXCEPT ![n + 1].text = newLine])

\* String.prototype.indexOf: the 0-based index of the first occurrence.
IndexOfString(s, sub) ==
  IF \E i \in 0..(Len(s) - Len(sub)) : SubSeq(s, i + 1, i + Len(sub)) = sub
  THEN Min({i \in 0..(Len(s) - Len(sub)) : SubSeq(s, i + 1, i + Len(sub)) = sub})
  ELSE -1

\* lineText.match(/^(\s*)/)[1]
Indent(lineText) == SubSeq(lineText, 1, Len(lineText) - Len(TrimStart(lineText)))

getTaskStatus(line) ==
  LET trimmedLine == TrimStart(line)
  IN IF StartsWith(trimmedLine, NotStarted) THEN NotStarted
     ELSE IF StartsWith(trimmedLine, InProgress) THEN InProgress
     ELSE IF StartsWith(trimmedLine, Completed) THEN Completed
     ELSE Undefined

\* Mutant: the cycle runs the other way round.
getNextStatusBackwards(currentStatus) ==
  IF currentStatus = NotStarted THEN Completed
  ELSE IF currentStatus = InProgress THEN NotStarted
  ELSE IF currentStatus = Completed THEN InProgress
  ELSE NotStarted

getNextStatus(currentStatus) ==
  IF currentStatus = NotStarted THEN InProgress
  ELSE IF currentStatus = InProgress THEN Completed
  ELSE IF currentStatus = Completed THEN NotStarted
  ELSE NotStarted

\* Mutant: the new line starts at the glyph, the indentation is dropped.
updateTaskStatusNoIndent(lineText, currentStatus, newStatus) ==
  LET taskContent ==
        Trim(Substring(lineText,
                       IndexOfString(lineText, currentStatus) + Len(currentStatus)))
  IN newStatus \o <<SP>> \o taskContent

\* updateTaskStatus up to `newLine`: the text that replaces the line.
updateTaskStatus(lineText, currentStatus, newStatus) ==
  LET indent == Indent(lineText)
      taskContent ==
        Trim(Substring(lineText,
                       IndexOfString(lineText, currentStatus) + Len(currentStatus)))
  IN indent \o newStatus \o <<SP>> \o taskContent

\* Mutant: the target status is set also when the line has it already.
OppositeStatusNone(currentStatus) == currentStatus

\* switch (currentStatus) of setSpecificStatus: the status set instead of
\* the target when the line has the target status already.
OppositeStatus(currentStatus) ==
  IF currentStatus = Completed THEN InProgress
  ELSE IF currentStatus = InProgress THEN NotStarted
  ELSE IF currentStatus = NotStarted THEN InProgress
  ELSE NotStarted

Statuses == {NotStarted, InProgress, Completed}

\* Lines of a document: glyph or none, separator or none, indentation, a
\* label that holds a glyph, trailing whitespace, a blank line.
EditorLines ==
  { NotStarted \o <<SP, "a">>,
    <<SP, SP>> \o InProgress \o <<SP, "b">>,
    <<TAB>> \o Completed \o <<"c">>,
    Completed \o <<SP, SP, "a", SP>> \o InProgress \o <<SP>>,
    NotStarted,
    <<SP, "a", SP>> \o NotStarted,
    <<>> }

\* Documents of one line, and of more lines ended by LF, or by a CR alone
\* (a line break for the editor, not for the parser).
EditorTexts ==
  {Join(ls, sep) : ls \in SeqsUpTo(EditorLines, MaxDocLines) \ {<<>>},
                   sep \in {<<LF>>, <<CR>>}}

\* The path of the document.
DocumentPath == SessionPath(1)

\* A document is open in the active editor; nothing is parsed yet.
InitEditor ==
  /\ text \in EditorTexts
  /\ groups = <<>>
  /\ inProgressTasks = NoResult
  /\ \E languageId \in {"todo", "plaintext"} :
       editor = [NoEditor EXCEPT !.languageId = languageId]
  /\ activeView = NoView
  /\ CacheIdle
  /\ WatcherIdle
  /\ AggregatorIdle

\* What a command leaves in the editor: the command counted, what it
\* returned and the message it showed, and the refresh it asked for.
AfterCommand(last, edited, toggles) ==
  [editor EXCEPT !.commands = @ + 1,
                 !.last = last,
                 !.refreshPending = @ \/ edited,
                 !.toggles = toggles]

\* The user moves the cursor to line n.
MoveCursor(n) ==
  /\ n \in 0..(LineCount(text) - 1)
  /\ n # editor.cursor
  /\ editor' = [editor EXCEPT !.cursor = n]
  /\ UNCHANGED <<text, groups, inProgressTasks, activeView>>
  /\ UNCHANGED cacheVars
  /\ UNCHANGED watcherVars
  /\ UNCHANGED aggVars

\* TodoEditor.toggleTaskStatus(editor), the edit applied.
ToggleTaskStatus ==
  /\ editor.commands < MaxCommands
  /\ LET n == editor.cursor
         lineText == LineAt(text, n)
         currentStatus == getTaskStatus(lineText)
         cmd == NoCommand
     IN IF editor.languageId # "todo"
        THEN /\ text' = text
             /\ editor' = AfterCommand([cmd EXCEPT !.message = "onlyInTodoFile"],
                                       FALSE, NoToggles)
        ELSE IF currentStatus = Undefined
        THEN /\ text' = text
             /\ editor' = AfterCommand([cmd EXCEPT !.message = "notValidTask"],
                                       FALSE, NoToggles)
        ELSE LET nextStatus == getNextStatus(currentStatus)
             IN /\ text' = Replace(text, n,
                                   updateTaskStatus(lineText, currentStatus, nextStatus))
                /\ editor' =
                     AfterCommand(cmd, TRUE,
                                  IF editor.toggles.count > 0 /\ editor.toggles.line = n
                                  THEN [editor.toggles EXCEPT !.count = @ + 1]
                                  ELSE [line |-> n, origin |-> currentStatus, count |-> 1])
  /\ UNCHANGED <<groups, inProgressTasks, activeView>>
  /\ UNCHANGED cacheVars
  /\ UNCHANGED watcherVars
  /\ UNCHANGED aggVars

\* TodoEditor.setSpecificStatus(editor, newStatus), the edit applied:
\* setTaskCompleted, setTaskNotStarted and setTaskInProgress.
setSpecificStatus(newStatus) ==
  /\ editor.commands < MaxCommands
  /\ LET n == editor.cursor
         lineText == LineAt(text, n)
         currentStatus == getTaskStatus(lineText)
         cmd == NoCommand
     IN IF editor.languageId # "todo"
        THEN /\ text' = text
             /\ editor' = AfterCommand([cmd EXCEPT !.message = "onlyInTodoFile"],
                                       FALSE, NoToggles)
        ELSE IF currentStatus = Undefined
        THEN /\ text' = text
             /\ editor' = AfterCommand([cmd EXCEPT !.message = "notValidTask"],
                                       FALSE, NoToggles)
        ELSE IF currentStatus = newStatus
        THEN /\ text' = Replace(text, n,
                                updateTaskStatus(lineText, currentStatus,
                                                 OppositeStatus(currentStatus)))
             /\ editor' = AfterCommand(cmd, TRUE, NoToggles)
        ELSE /\ text' = Replace(text, n,
                                updateTaskStatus(lineText, currentStatus, newStatus))
             /\ editor' = AfterCommand(cmd, TRUE, NoToggles)
  /\ UNCHANGED <<groups, inProgressTasks, activeView>>
  /\ UNCHANGED cacheVars
  /\ UNCHANGED watcherVars
  /\ UNCHANGED aggVars

\* An optional number (lineNumber?: number): undefined, or a value.
None == [defined |-> FALSE, value |-> 0]

Some(n) == [defined |-> TRUE, value |-> n]

\* The tasks a view can hand to updateTaskInFile: the items of the parsed
\* files, and items without a path, without a line number, or with a line
\* number beyond the document.
ViewTasks ==
  {[filePath |-> file.heap[r].filePath, lineNumber |-> Some(file.heap[r].lineNumber)] :
     <<file, r>> \in {<<f, q>> \in FilesOf(groups) \X (1..(2 * MaxDocLines)) :
                        q <= Len(f.heap)}}
  \cup {[filePath |-> Undefined, lineNumber |-> Some(0)],
        [filePath |-> DocumentPath, lineNumber |-> None],
        [filePath |-> DocumentPath, lineNumber |-> Some(LineCount(text))]}

\* TodoEditor.updateTaskInFile(task, newStatus), the edit applied and the
\* document saved.
updateTaskInFile(task, newStatus) ==
  /\ editor.commands < MaxCommands
  /\ LET lineNumber == task.lineNumber.value
         cmd == NoCommand
     IN IF task.filePath = Undefined \/ ~task.lineNumber.defined
        THEN /\ text' = text
             /\ editor' = AfterCommand(cmd, FALSE, NoToggles)
        ELSE IF lineNumber >= LineCount(text)
        THEN /\ text' = text
             /\ editor' = AfterCommand(cmd, FALSE, NoToggles)
        ELSE LET lineText == LineAt(text, lineNumber)
                 currentStatus == getTaskStatus(lineText)
             IN IF currentStatus = Undefined
                THEN /\ text' = text
                     /\ editor' = AfterCommand(cmd, FALSE, NoToggles)
                ELSE LET indent == Indent(lineText)
                         taskContent ==
                           Trim(Substring(lineText,
                                          IndexOfString(lineText, currentStatus)
                                            + Len(currentStatus)))
                         newLine == indent \o newStatus \o <<SP>> \o taskContent
                     IN /\ text' = Replace(text, lineNumber, newLine)
                        /\ editor' = AfterCommand([cmd EXCEPT !.returned = TRUE],
                                                  TRUE, NoToggles)
  /\ UNCHANGED <<groups, inProgressTasks, activeView>>
  /\ UNCHANGED cacheVars
  /\ UNCHANGED watcherVars
  /\ UNCHANGED aggVars

\* The command xtodo.refreshTodoView a successful edit executes: the files
\* are parsed again from the document.
RefreshTodoView ==
  /\ editor.refreshPending
  /\ editor' = [editor EXCEPT !.refreshPending = FALSE]
  /\ groups' = Reparse(groups, text)
  /\ UNCHANGED <<text, inProgressTasks, activeView>>
  /\ UNCHANGED cacheVars
  /\ UNCHANGED watcherVars
  /\ UNCHANGED aggVars

\* The views parse the document for the first time.
ParseDocument(g) ==
  /\ groups = <<>>
  /\ groups' = AddToGroups(groups, g, parseTodoFileUncached(DocumentPath, g, text))
  /\ UNCHANGED <<text, inProgressTasks, editor, activeView>>
  /\ UNCHANGED cacheVars
  /\ UNCHANGED watcherVars
  /\ UNCHANGED aggVars

NextEditor ==
  \/ \E n \in 0..MaxDocLines : MoveCursor(n)
  \/ ToggleTaskStatus
  \/ \E newStatus \in Statuses : setSpecificStatus(newStatus)
  \/ \E task \in ViewTasks : \E newStatus \in Statuses : updateTaskInFile(task, newStatus)
  \/ RefreshTodoView
  \/ ParseDocument("work")

SpecEditor == InitEditor /\ [][NextEditor]_vars

(***************************************************************************)
(* Properties of the status commands                                       *)
(***************************************************************************)
\* The parser's reading of one line: its indentation, status and label.
IndentLevelOf(line) == Len(line) - Len(TrimStart(line))

ContentOf(line) == LineContent(TrimStart(line))

StatusOf(line) == LineStatus(TrimStart(line))

\* The lines of the document t that differ in u (0-based).
ChangedLines(t, u) ==
  {n \in 0..(LineCount(t) - 1) :
     n >= LineCount(u) \/ DocLines(t, <<>>)[n + 1] # DocLines(u, <<>>)[n + 1]}

HasCR(t) == \E k \in 1..Len(t) : t[k] = CR

\* The items of the one file parsed from t, without their status.
Unstatused(t) ==
  LET file == ParseContent(t, DocumentPath, "work")
  IN [k \in 1..Len(file.heap) |-> [file.heap[k] EXCEPT !.status = Undefined]]

ParsedTasks ==
  {[filePath |-> file.heap[r].filePath, lineNumber |-> Some(file.heap[r].lineNumber)] :
     <<file, r>> \in {<<f, q>> \in FilesOf(groups) \X (1..(2 * MaxDocLines)) :
                        q <= Len(f.heap)}}

\* The document has not changed since the files were parsed.
ParsedNow == groups # <<>> /\ groups = Reparse(groups, text)

\* C32: updateTaskInFile, handed an item of a file parsed from the document
\* as it is, returns true and rewrites at most the line of the item's
\* lineNumber, after which the document parses to the same items with the
\* item's status newStatus; handed an item without file path or line number,
\* or with a line number not below the line count, it returns false and
\* leaves the document alone.
C32_UpdateTaskFromView ==
  [][\A task \in ViewTasks : \A newStatus \in Statuses :
       updateTaskInFile(task, newStatus) =>
         LET ln == task.lineNumber.value
             before == ParseContent(text, DocumentPath, "work")
             after == ParseContent(text', DocumentPath, "work")
         IN /\ (ParsedNow /\ task \in ParsedTasks) =>
                 /\ editor'.last.returned
                 /\ ChangedLines(text, text') \subseteq {ln}
                 /\ Len(after.heap) = Len(before.heap)
                 /\ \A k \in 1..Len(before.heap) :
                      after.heap[k] =
                        IF before.heap[k].lineNumber = ln
                        THEN [before.heap[k] EXCEPT !.status = newStatus]
                        ELSE before.heap[k]
            /\ (\/ task.filePath = Undefined
                \/ ~task.lineNumber.defined
                \/ ln >= LineCount(text)) =>
                 /\ ~editor'.last.returned
                 /\ text' = text]_vars

\* The status of line n of the document t, as the editor reads it.
StatusAt(t, n) == getTaskStatus(LineAt(t, n))

\* The cycle of the statuses.
CycleNext(status) ==
  CASE status = NotStarted -> InProgress
    [] status = InProgress -> Completed
    [] status = Completed -> NotStarted

\* C38: a toggle on a task line of a todo document moves the line's status
\* one step along NotStarted -> InProgress -> Completed -> NotStarted and
\* changes no other line; the third of three toggles in a row on one line
\* leaves the status the line had before the first; on a line that does not
\* start with a glyph, or in a document that is not a todo file, the toggle
\* leaves the document as it is.
C38_ToggleCycles ==
  [][ToggleTaskStatus =>
       LET n == editor.cursor
       IN IF editor.languageId = "todo" /\ StatusAt(text, n) \in Statuses
          THEN /\ StatusAt(text', n) = CycleNext(StatusAt(text, n))
               /\ ChangedLines(text, text') = {n}
               /\ editor'.toggles.count = 3 =>
                    StatusAt(text', n) = editor'.toggles.origin
          ELSE text' = text]_vars

\* Three toggles in a row have been applied to one task line.
C38_Witness ==
  /\ editor.languageId = "todo"
  /\ editor.toggles.count = 3
  /\ StatusAt(text, editor.toggles.line) = editor.toggles.origin

\* The status a set-status command leaves on a line of status c.
StatusSetTo(c, t) ==
  IF c # t THEN t
  ELSE CASE c = Completed -> InProgress
         [] c = InProgress -> NotStarted
         [] c = NotStarted -> InProgress

\* C39: setTaskCompleted, setTaskInProgress and setTaskNotStarted, on a task
\* line of status c of a todo document, leave the line with the target
\* status when c is not the target and with the toggled status (Completed ->
\* InProgress, InProgress -> NotStarted, NotStarted -> InProgress) when it
\* is, so never with status c; on a line without a glyph the document stays
\* as it is.
C39_SetStatusNeverKeeps ==
  [][\A newStatus \in Statuses :
       setSpecificStatus(newStatus) =>
         LET n == editor.cursor
             c == StatusAt(text, n)
         IN IF editor.languageId = "todo" /\ c \in Statuses
            THEN /\ StatusAt(text', n) = StatusSetTo(c, newStatus)
                 /\ StatusAt(text', n) # c
                 /\ ChangedLines(text, text') = {n}
            ELSE text' = text]_vars

\* A set-status command has found its target on the line and set the
\* opposite: the line that was Completed and indented by a tab is InProgress.
C39_Witness ==
  /\ editor.languageId = "todo"
  /\ editor.commands = 1
  /\ editor.refreshPending
  /\ editor.toggles = NoToggles
  /\ LineAt(text, editor.cursor) = <<TAB>> \o InProgress \o <<SP, "c">>

(***************************************************************************)
(* One document parsed once                                                *)
(***************************************************************************)
MaxOutlineLines == 4

OutlineTexts ==
  {Join(ls, <<LF>>) : ls \in SeqsUpTo(StructLines, MaxOutlineLines)} \cup RichTexts

InitOutline ==
  /\ text \in OutlineTexts
  /\ groups = <<>>
  /\ inProgressTasks = NoResult
  /\ editor = NoEditor
  /\ activeView = NoView
  /\ CacheIdle
  /\ WatcherIdle
  /\ AggregatorIdle

NextOutline == \E g \in GroupNames : OpenAndParse(g)

SpecOutline == InitOutline /\ [][NextOutline]_vars

\* The parsed forest without its line numbers: content, status, indentLevel
\* and nesting.
Shape(file) ==
  [items |-> file.items,
   nodes |-> [k \in 1..Len(file.heap) |->
                [content |-> file.heap[k].content,
                 status |-> file.heap[k].status,
                 indentLevel |-> file.heap[k].indentLevel,
                 children |-> file.heap[k].children]]]

\* The non-blank lines of t, in order.
NonBlankLines(t) ==
  SelectSeq([i \in 1..NumLines(t) |-> OriginalLine(t, i)],
            LAMBDA l : NonWsPositions(l) # {})

\* C16: when the text changes only by blank (empty or whitespace-only) lines
\* inserted or removed, every file parsed again has the same items as before
\* in content, status, indentLevel and nesting; and a text of blank lines
\* only parses to no items.
C16_BlankLinesContributeNothing ==
  [][/\ (text' # text /\ NonBlankLines(text') = NonBlankLines(text)) =>
          /\ Len(groups') = Len(groups)
          /\ \A file \in FilesOf(groups) : \E again \in FilesOf(groups') :
               again.path = file.path /\ Shape(again) = Shape(file)
     /\ NonBlankLines(text') = <<>> =>
          \A again \in FilesOf(groups') : again.items = <<>> /\ again.heap = <<>>]_vars

\* A whitespace-only line stands between a parent and its child in a parsed
\* file.
C16_Witness ==
  \E file \in FilesOf(groups) :
    /\ NumLines(text) = 3
    /\ OriginalLine(text, 2) # <<>>
    /\ NonWsPositions(OriginalLine(text, 2)) = {}
    /\ Len(file.heap) = 2
    /\ file.heap[1].children = <<2>>
    /\ file.heap[2].lineNumber = 2

\* One line per item: indentLevel whitespace characters, the status glyph, a
\* separator and the content.
RenderLine(item) ==
  [k \in 1..item.indentLevel |-> SP] \o item.status \o <<SP>> \o item.content

\* The forest as text: its items in pre-order, one line each.
Render(file) ==
  LET visit == Preorder(file, file.items, Len(file.heap) + 1)
  IN Join([k \in 1..Len(visit) |-> RenderLine(file.heap[visit[k]])], <<LF>>)

\* C17: parsing the rendering of a parsed forest gives a forest equal to it
\* in content, status, indentLevel and nesting.
C17_RoundTrip ==
  \A file \in FilesOf(groups) :
    Shape(ParseContent(Render(file), file.path, file.group)) = Shape(file)

(***************************************************************************)
(* Properties of the file cache                                            *)
(***************************************************************************)
\* What the uncached parser returns for the file as it is now.
UncachedNow(filePath, group, files) ==
  parseTodoFileUncached(filePath, group,
                        IF files[filePath].exists THEN files[filePath].content
                        ELSE ReadError)

\* Equal in content, status, nesting and line numbers.
SameItems(a, b) == a.items = b.items /\ a.heap = b.heap

\* C3: whenever a parseTodoFile call returns that no modification of its
\* file has overlapped (modification times never repeat: each write gets a
\* later mtime), the items it returns equal the items the uncached parser
\* returns for the file's current content, whatever calls, modifications,
\* deletions and clearCache calls came before.
C3_CacheIsTransparent ==
  [][\A c \in Slots :
       (calls[c].pc # "done" /\ calls'[c].pc = "done" /\ ~calls'[c].overlapped)
         => SameItems(calls'[c].ret,
                      UncachedNow(calls'[c].filePath, calls'[c].group, fs'))]_vars

\* A call served from the parse cache, and a later call that read the file
\* again after a modification and returned different items.
C3_Witness ==
  \E c1, c2 \in Slots :
    /\ calls[c1].pc = "done" /\ calls[c2].pc = "done"
    /\ ~calls[c1].overlapped /\ ~calls[c2].overlapped
    /\ calls[c1].filePath = calls[c2].filePath
    /\ calls[c1].how = "parseCache" /\ calls[c2].how = "read"
    /\ calls[c1].stats.mtime < calls[c2].stats.mtime
    /\ ~SameItems(calls[c1].ret, calls[c2].ret)
    /\ SameItems(calls[c2].ret, UncachedNow(calls[c2].filePath, calls[c2].group, fs))

\* The parse cache holds an entry for the call's path whose stored mtime is
\* the mtime the call's stat returned.
HitEntries(c) ==
  {k \in 1..Len(fileParseCache) :
     /\ fileParseCache[k].key = calls[c].filePath
     /\ fileParseCache[k].mtime = calls[c].stats.mtime}

\* C4: when a call resumes after a successful stat and the parse cache holds
\* an entry for its path with the stat's mtime, the call returns that entry's
\* TodoFile, issues no readFile, parses nothing and leaves both caches as
\* they were.
C4_HitServedWithoutReadOrParse ==
  [][\A c \in Slots :
       (/\ calls[c].pc = "statted"
        /\ calls[c].stats.ok
        /\ HitEntries(c) # {}
        /\ calls'[c].pc # "statted")
         => /\ calls'[c].pc = "done"
            /\ \E k \in HitEntries(c) : calls'[c].ret = fileParseCache[k].result
            /\ UNCHANGED <<fileContentCache, fileParseCache, readCount, parseCount>>]_vars

\* A call that returned a non-empty TodoFile from the parse cache.
C4_Witness ==
  \E c \in Slots :
    /\ calls[c].pc = "done"
    /\ calls[c].how = "parseCache"
    /\ calls[c].ret.items # <<>>
    /\ readCount < started

\* The call in slot c is about to resume after a stat or a read that failed.
FailedAwait(c) ==
  \/ calls[c].pc = "statted" /\ ~calls[c].stats.ok
  \/ calls[c].pc = "readDone" /\ calls[c].data = ReadError

\* C11: a call whose stat or read failed returns, when it resumes, a TodoFile
\* with the call's path, the path's base name, the call's group and no items,
\* and that step leaves both caches as they were; so does the step that took
\* the call from the stat to the read.
C11_UnreadableDegradesToEmpty ==
  [][\A c \in Slots :
       /\ (FailedAwait(c) /\ calls'[c].pc # calls[c].pc) =>
            /\ calls'[c].pc = "done"
            /\ calls'[c].ret = [path |-> calls[c].filePath,
                                name |-> Basename(calls[c].filePath),
                                items |-> <<>>,
                                group |-> calls[c].group,
                                heap |-> <<>>]
            /\ fileContentCache' = fileContentCache
            /\ fileParseCache' = fileParseCache
       /\ (calls[c].pc = "statted" /\ calls'[c].pc = "read") =>
            /\ fileContentCache' = fileContentCache
            /\ fileParseCache' = fileParseCache]_vars

\* A call whose stat succeeded and whose read failed (the file was deleted
\* in between) has returned the empty file while both caches still hold the
\* entries of an earlier call.
C11_Witness ==
  \E c \in Slots :
    /\ calls[c].pc = "done"
    /\ calls[c].how = "empty"
    /\ calls[c].stats.ok
    /\ calls[c].ret.items = <<>>
    /\ calls[c].ret.group = calls[c].group
    /\ fileContentCache # <<>>
    /\ fileParseCache # <<>>

\* C18: a file is parsed at most once per modification: no call parses a
\* file while the parse cache holds, neither cleared nor evicted, the result
\* for the modification time the call's stat returned, whether or not the
\* calls overlap in time.
C18_ParsedAtMostOncePerModification ==
  [][\A c \in Slots :
       (calls[c].pc # "done" /\ calls'[c].pc = "done"
        /\ parseCount' = parseCount + 1)
         => ~ParseCacheValid(fileParseCache, calls[c].filePath,
                             calls[c].stats.mtime)]_vars

\* C33: the TodoFile a parseTodoFile call returns has the group the call
\* was given.
C33_ReturnedGroupIsArgument ==
  \A c \in Slots : calls[c].pc = "done" => calls[c].ret.group = calls[c].group

\* The path -> mtime pairs a cache holds.
Stored(m) == {<<m[k].key, m[k].mtime>> : k \in 1..Len(m)}

\* C34: between any two steps of the calls (at every await, and between
\* callbacks) the content cache and the parse cache hold the same paths,
\* each with the same mtime in both.
C34_CachesInStep == Stored(fileContentCache) = Stored(fileParseCache)

\* The caches hold a file that has changed since: one call awaits its read
\* of the new text, another has returned from a read that a change of the
\* file overlapped.
C34_Witness ==
  /\ fileContentCache # <<>>
  /\ \E c, d \in Slots :
       /\ calls[c].pc = "read"
       /\ calls[c].stats.mtime # fileContentCache[1].mtime
       /\ calls[d].pc = "done"
       /\ calls[d].how = "read"
       /\ calls[d].overlapped

(***************************************************************************)
(* The file cache at its cap                                               *)
(***************************************************************************)
\* The paths of the files parsed earlier, in the order of their first parse.
FillPath(k) == <<"ws", "work", ToString(k)>>

\* Two files not parsed yet, and the file parsed first, modified since.
EvictPaths == {<<"ws", "work", "x.todo">>, <<"ws", "work", "y.todo">>, FillPath(1)}

\* The caches after n files were parsed, each once, at mtime 1.
InitEvict ==
  /\ \E n \in {CacheCap - 1, CacheCap} :
       /\ fileContentCache =
            [k \in 1..n |-> [key |-> FillPath(k), content |-> <<"a">>, mtime |-> 1]]
       /\ fileParseCache =
            [k \in 1..n |->
               [key |-> FillPath(k),
                result |-> ParseContent(<<"a">>, FillPath(k), "work"),
                mtime |-> 1]]
  /\ fs = [p \in EvictPaths |->
             [exists |-> TRUE,
              content |-> IF p = FillPath(1) THEN InProgress \o <<SP, "b">> ELSE <<"a">>,
              mtime |-> 2]]
  /\ clock = 2
  /\ calls = [c \in Slots |-> IdleCall]
  /\ started = 0
  /\ readCount = 0
  /\ parseCount = 0
  /\ cleared = NoClears
  /\ ParserIdle
  /\ WatcherIdle
  /\ AggregatorIdle

NextEvict ==
  \/ \E c \in Slots : \E p \in EvictPaths : \E g \in GroupNames : Call(c, p, g)
  \/ \E c \in Slots : StatSettles(c)
  \/ \E c \in Slots : StatResume(c)
  \/ \E c \in Slots : ReadSettles(c)
  \/ \E c \in Slots : ReadResume(c)

SpecEvict == InitEvict /\ [][NextEvict]_vars

\* What a cache is after `entry` was stored in `cache`: at 100 entries and a
\* new key, the 10 entries inserted first are gone, the other 90 keep their
\* order and the stored entry is last; otherwise nothing is evicted.
AfterStore(cache, entry) ==
  IF \E k \in 1..Len(cache) : cache[k].key = entry.key
  THEN [k \in 1..Len(cache) |-> IF cache[k].key = entry.key THEN entry ELSE cache[k]]
  ELSE IF Len(cache) = 100
  THEN SubSeq(cache, 11, 100) \o <<entry>>
  ELSE cache \o <<entry>>

\* C19: after every step each cache holds at most 100 entries; a call that
\* stores the file it read leaves each cache as AfterStore says: an
\* insertion that makes 101 entries evicts exactly the 10 inserted first,
\* keeps the entry just stored and leaves 91.
C19_CachesBounded ==
  [][/\ Len(fileContentCache') <= 100
     /\ Len(fileParseCache') <= 100
     /\ \A c \in Slots :
          (calls[c].pc = "readDone" /\ calls[c].data # ReadError
           /\ calls'[c].pc = "done") =>
            /\ fileContentCache' =
                 AfterStore(fileContentCache,
                            [key |-> calls[c].filePath, content |-> calls[c].data,
                             mtime |-> calls[c].stats.mtime])
            /\ fileParseCache' =
                 AfterStore(fileParseCache,
                            [key |-> calls[c].filePath, result |-> calls'[c].ret,
                             mtime |-> calls[c].stats.mtime])]_vars

\* Both caches hold 91 entries after an eviction: the first is the file
\* parsed eleventh, the last the file of the call that just returned.
C19_Witness ==
  \E c \in Slots :
    /\ calls[c].pc = "done" /\ calls[c].how = "read"
    /\ Len(fileContentCache) = 91 /\ Len(fileParseCache) = 91
    /\ fileContentCache[1].key = FillPath(11)
    /\ fileParseCache[1].key = FillPath(11)
    /\ fileContentCache[91].key = calls[c].filePath
    /\ fileParseCache[91].key = calls[c].filePath

(***************************************************************************)
(* clearCache on caches that hold several files                            *)
(***************************************************************************)
MaxCached == 3

\* The files on disk, all parsed before or not.
CachedPaths == {FillPath(k) : k \in 1..MaxCached}

\* The paths clearCache is called with: files on disk and one never parsed.
ClearPaths == CachedPaths \cup {<<"ws", "work", "x.todo">>}

\* The caches after the first n files were parsed, each once, at mtime 1.
InitClear ==
  /\ \E n \in 1..MaxCached :
       /\ fileContentCache =
            [k \in 1..n |-> [key |-> FillPath(k), content |-> <<"a">>, mtime |-> 1]]
       /\ fileParseCache =
            [k \in 1..n |->
               [key |-> FillPath(k),
                result |-> ParseContent(<<"a">>, FillPath(k), "work"),
                mtime |-> 1]]
  /\ fs = [p \in CachedPaths |-> [exists |-> TRUE, content |-> <<"a">>, mtime |-> 1]]
  /\ clock = 1
  /\ calls = [c \in Slots |-> IdleCall]
  /\ started = 0
  /\ readCount = 0
  /\ parseCount = 0
  /\ cleared = NoClears
  /\ ParserIdle
  /\ WatcherIdle
  /\ AggregatorIdle

NextClear ==
  \/ \E c \in Slots : \E p \in CachedPaths : Call(c, p, "work")
  \/ \E c \in Slots : StatSettles(c)
  \/ \E c \in Slots : StatResume(c)
  \/ \E c \in Slots : ReadSettles(c)
  \/ \E c \in Slots : ReadResume(c)
  \/ \E p \in ClearPaths : ClearCachePath(p)
  \/ ClearCacheAll

SpecClear == InitClear /\ [][NextClear]_vars

\* `new` is `old` without the entries of path p: every other entry is kept,
\* in its order.
Removed(old, new, p) ==
  LET keep == {k \in 1..Len(old) : old[k].key # p}
  IN /\ Len(new) = Cardinality(keep)
     /\ \A k \in keep :
          new[k - Cardinality({j \in 1..k : old[j].key = p})] = old[k]

\* C20: clearCache(path) removes the entries of that path from the content
\* cache and from the parse cache and leaves every other entry of both as it
\* was; clearCache() leaves both caches empty.
C20_ClearCacheFrame ==
  [][/\ \A p \in ClearPaths :
          ClearCachePath(p) =>
            /\ Removed(fileContentCache, fileContentCache', p)
            /\ Removed(fileParseCache, fileParseCache', p)
     /\ ClearCacheAll => fileContentCache' = <<>> /\ fileParseCache' = <<>>]_vars

\* The entries of the second of three files were cleared from both caches;
\* the first and the third are still there, and no call has run.
C20_Witness ==
  /\ started = 0
  /\ Len(fileContentCache) = 2 /\ Len(fileParseCache) = 2
  /\ fileContentCache[1].key = FillPath(1) /\ fileContentCache[2].key = FillPath(3)
  /\ fileParseCache[1].key = FillPath(1) /\ fileParseCache[2].key = FillPath(3)

(***************************************************************************)
(* clearCache beside parseTodoFile calls in flight                         *)
(***************************************************************************)
\* One file on disk, never modified; the caches empty; the history of
\* clearCache calls is kept.
InitRace ==
  /\ fs \in [CachePaths ->
               {[exists |-> TRUE, content |-> t, mtime |-> 1] : t \in CacheTexts}]
  /\ clock = 1
  /\ fileContentCache = <<>>
  /\ fileParseCache = <<>>
  /\ calls = [c \in Slots |-> IdleCall]
  /\ started = 0
  /\ readCount = 0
  /\ parseCount = 0
  /\ cleared = [tracking |-> TRUE, paths |-> {}]
  /\ ParserIdle
  /\ WatcherIdle
  /\ AggregatorIdle

NextRace ==
  \/ \E c \in Slots : \E p \in CachePaths : \E g \in GroupNames : Call(c, p, g)
  \/ \E c \in Slots : StatSettles(c)
  \/ \E c \in Slots : StatResume(c)
  \/ \E c \in Slots : ReadSettles(c)
  \/ \E c \in Slots : ReadResume(c)
  \/ \E p \in CachePaths : ClearCachePath(p)
  \/ ClearCacheAll

SpecRace == InitRace /\ [][NextRace]_vars

\* C21: the first parseTodoFile call for a path that starts after
\* clearCache(path) or clearCache() has returned, the file being there, is
\* served from neither cache (it reads and parses the file again), also when
\* another call for the path was in flight when the caches were cleared.
C21_FirstCallAfterClearMisses ==
  \A c \in Slots :
    (calls[c].pc = "done" /\ calls[c].afterClear /\ calls[c].stats.ok) =>
      calls[c].how \notin {"parseCache", "contentCache"}

(***************************************************************************)
(* Change-driven invalidator: TodoFileWatcher (the debounced revision)     *)
(***************************************************************************)
\* private readonly DEBOUNCE_DELAY = 300
DEBOUNCE_DELAY == 300

MaxEvents == 4
MaxTicks == 6

\* The step by which the modelled time advances.
TickMs == DEBOUNCE_DELAY \div 3

\* What findAllTodoFiles may resolve to: the names of the groups found.
AggResults == {<<>>, <<"work">>}

\* Mutant: the armed timer is left armed.
ClearTimeoutNoop(armed, handle) == armed

\* clearTimeout(handle): no effect when the handle's timer has fired or is
\* undefined.
ClearTimeout(armed, handle) == {t \in armed : t.id # handle}

InitWatcher ==
  /\ WatcherIdle
  /\ ParserIdle
  /\ CacheIdle
  /\ AggregatorIdle

\* A request that finds isRefreshing set: pendingRefresh = true.
Deferred ==
  IF pendingRefresh
  THEN [window EXCEPT !.requests = @ + 1]
  ELSE [requests |-> 1, followUps |-> 0]

\* onDidCreate / onDidChange / onDidDelete -> invalidateCacheForFile(uri.fsPath):
\* the pending timer is cancelled and a new one armed.  A timer that has
\* expired runs its callback before a notification that arrives later.
FsNotify ==
  /\ events < MaxEvents
  /\ \A t \in timers : t.due > now
  /\ events' = events + 1
  /\ timers' = ClearTimeout(timers, debounceTimer)
                 \cup {[id |-> events + 1, due |-> now + DEBOUNCE_DELAY]}
  /\ debounceTimer' = events + 1
  /\ burst' = IF burst.size > 0 /\ ~burst.interrupted
                 /\ now - burst.last < DEBOUNCE_DELAY
              THEN [burst EXCEPT !.size = @ + 1, !.last = now]
              ELSE [NoBurst EXCEPT !.size = 1, !.last = now]
  /\ UNCHANGED <<todoCache, isRefreshing, pendingRefresh, trampolines, refreshes,
                 now, refreshStarted, window>>
  /\ fresh' = [fresh EXCEPT !.invalidatedAt = refreshStarted]
  /\ UNCHANGED <<refreshCallbacks, notifyTimers, handles, notified, pass, snapshotHeld>>
  /\ UNCHANGED parserVars
  /\ UNCHANGED cacheVars
  /\ UNCHANGED aggVars

\* Mutant: a timer that fires during a refresh asks for no follow-up.
DebounceFireDrops(t) ==
  /\ t \in timers
  /\ t.due <= now
  /\ timers' = timers \ {t}
  /\ IF isRefreshing
     THEN UNCHANGED <<pendingRefresh, window, burst, isRefreshing, refreshes,
                      refreshStarted>>
     ELSE /\ isRefreshing' = TRUE
          /\ pendingRefresh' = FALSE
          /\ refreshStarted' = refreshStarted + 1
          /\ refreshes' = refreshes \cup
                            {[id |-> refreshStarted + 1, origin |-> "debounce"]}
          /\ burst' = [burst EXCEPT !.started = @ + 1, !.startedAt = now]
          /\ UNCHANGED window
  /\ UNCHANGED <<todoCache, debounceTimer, trampolines, now, events>>
  /\ UNCHANGED <<refreshCallbacks, notifyTimers, handles, notified, pass, snapshotHeld,
                 fresh>>
  /\ UNCHANGED parserVars
  /\ UNCHANGED cacheVars
  /\ UNCHANGED aggVars

\* The debounce timer's callback.
DebounceFire(t) ==
  /\ t \in timers
  /\ t.due <= now
  /\ timers' = timers \ {t}
  /\ IF isRefreshing
     THEN /\ pendingRefresh' = TRUE
          /\ window' = Deferred
          /\ burst' = [burst EXCEPT !.deferred = @ + 1,
                                    !.deferredIdle = (refreshes = {})]
          /\ UNCHANGED <<isRefreshing, refreshes, refreshStarted>>
     ELSE /\ isRefreshing' = TRUE
          /\ pendingRefresh' = FALSE
          /\ refreshStarted' = refreshStarted + 1
          /\ refreshes' = refreshes \cup
                            {[id |-> refreshStarted + 1, origin |-> "debounce"]}
          /\ burst' = [burst EXCEPT !.started = @ + 1, !.startedAt = now]
          /\ UNCHANGED window
  /\ UNCHANGED <<todoCache, debounceTimer, trampolines, now, events>>
  /\ UNCHANGED <<refreshCallbacks, notifyTimers, handles, notified, pass, snapshotHeld,
                 fresh>>
  /\ UNCHANGED parserVars
  /\ UNCHANGED cacheVars
  /\ UNCHANGED aggVars

\* invalidateCache()
InvalidateCache ==
  /\ events < MaxEvents
  /\ events' = events + 1
  /\ todoCache' = <<>>
  /\ timers' = ClearTimeout(timers, debounceTimer)
  /\ burst' = IF \E t \in timers : t.id = debounceTimer
              THEN [burst EXCEPT !.interrupted = TRUE]
              ELSE burst
  /\ IF isRefreshing
     THEN /\ pendingRefresh' = TRUE
          /\ window' = Deferred
          /\ UNCHANGED <<isRefreshing, refreshes, refreshStarted>>
     ELSE /\ isRefreshing' = TRUE
          /\ pendingRefresh' = FALSE
          /\ refreshStarted' = refreshStarted + 1
          /\ refreshes' = refreshes \cup
                            {[id |-> refreshStarted + 1, origin |-> "invalidate"]}
          /\ UNCHANGED window
  /\ snapshotHeld' = FALSE
  /\ fresh' = [fresh EXCEPT !.invalidatedAt = refreshStarted]
  /\ UNCHANGED <<debounceTimer, trampolines, now>>
  /\ UNCHANGED <<refreshCallbacks, notifyTimers, handles, notified, pass>>
  /\ UNCHANGED parserVars
  /\ UNCHANGED cacheVars
  /\ UNCHANGED aggVars

\* getTodoGroups()
GetTodoGroups ==
  /\ events < MaxEvents
  /\ events' = events + 1
  /\ IF Len(todoCache) = 0
     THEN /\ isRefreshing' = TRUE
          /\ pendingRefresh' = FALSE
          /\ refreshStarted' = refreshStarted + 1
          /\ refreshes' = refreshes \cup
                            {[id |-> refreshStarted + 1, origin |-> "get"]}
     ELSE UNCHANGED <<isRefreshing, pendingRefresh, refreshStarted, refreshes>>
  /\ UNCHANGED <<todoCache, debounceTimer, timers, trampolines, now, burst, window>>
  /\ UNCHANGED <<refreshCallbacks, notifyTimers, handles, notified, pass, snapshotHeld,
                 fresh>>
  /\ UNCHANGED parserVars
  /\ UNCHANGED cacheVars
  /\ UNCHANGED aggVars

\* Mutant: no notification is scheduled.
notifyRefreshCallbacksNever(armed) == armed

\* notifyRefreshCallbacks(): setTimeout(() => { for (...) ... }, 0)
notifyRefreshCallbacks(armed) == armed + 1

\* refreshCache resumes after `await findAllTodoFiles()` (which catches its
\* own errors and resolves): the snapshot is stored, the notification
\* scheduled, then the finally block.
RefreshCompletes(r, result) ==
  /\ r \in refreshes
  /\ refreshes' = refreshes \ {r}
  /\ todoCache' = result
  /\ snapshotHeld' = TRUE
  /\ fresh' = [fresh EXCEPT !.snapshotOf = r.id,
                            !.latest = IF r.id > @ THEN r.id ELSE @]
  /\ notifyTimers' = notifyRefreshCallbacks(notifyTimers)
  /\ isRefreshing' = FALSE
  /\ IF pendingRefresh
     THEN /\ trampolines' = trampolines + 1
          /\ window' = [window EXCEPT !.followUps = @ + 1]
     ELSE UNCHANGED <<trampolines, window>>
  /\ UNCHANGED <<pendingRefresh, debounceTimer, timers, now, events,
                 refreshStarted, burst>>
  /\ UNCHANGED <<refreshCallbacks, handles, notified, pass>>
  /\ UNCHANGED parserVars
  /\ UNCHANGED cacheVars
  /\ UNCHANGED aggVars

\* setTimeout(() => this.refreshCache(), 0) fires.
TrampolineFire ==
  /\ trampolines > 0
  /\ trampolines' = trampolines - 1
  /\ isRefreshing' = TRUE
  /\ pendingRefresh' = FALSE
  /\ refreshStarted' = refreshStarted + 1
  /\ refreshes' = refreshes \cup
                    {[id |-> refreshStarted + 1, origin |-> "trampoline"]}
  /\ UNCHANGED <<todoCache, debounceTimer, timers, now, events, burst, window>>
  /\ UNCHANGED <<refreshCallbacks, notifyTimers, handles, notified, pass, snapshotHeld,
                 fresh>>
  /\ UNCHANGED parserVars
  /\ UNCHANGED cacheVars
  /\ UNCHANGED aggVars

\* The callbacks subscribers register, and the handles there may be.
Callbacks == {"f", "g"}

MaxHandles == 3

\* this.refreshCallbacks.indexOf(callback): 0 stands for -1.
IndexOf(callbacks, fn) ==
  IF \E k \in 1..Len(callbacks) : callbacks[k].fn = fn
  THEN CHOOSE k \in 1..Len(callbacks) :
         /\ callbacks[k].fn = fn
         /\ \A j \in 1..(k - 1) : callbacks[j].fn # fn
  ELSE 0

\* this.refreshCallbacks.splice(index, 1)
Splice(callbacks, index) ==
  SubSeq(callbacks, 1, index - 1) \o SubSeq(callbacks, index + 1, Len(callbacks))

\* onDidRefresh(callback): the callback is pushed, a Disposable returned.
OnDidRefresh(fn) ==
  /\ Len(handles) < MaxHandles
  /\ refreshCallbacks' = Append(refreshCallbacks, [fn |-> fn, reg |-> Len(handles) + 1])
  /\ handles' = Append(handles, [fn |-> fn, disposed |-> FALSE])
  /\ UNCHANGED <<todoCache, isRefreshing, pendingRefresh, debounceTimer, timers,
                 trampolines, refreshes, now, events, refreshStarted, burst, window>>
  /\ UNCHANGED <<notifyTimers, notified, pass, snapshotHeld, fresh>>
  /\ UNCHANGED parserVars
  /\ UNCHANGED cacheVars
  /\ UNCHANGED aggVars

\* dispose() of the h-th Disposable returned.
Dispose(h) ==
  /\ h \in 1..Len(handles)
  /\ LET index == IndexOf(refreshCallbacks, handles[h].fn)
     IN refreshCallbacks' = IF index # 0 THEN Splice(refreshCallbacks, index)
                            ELSE refreshCallbacks
  /\ handles' = [handles EXCEPT ![h].disposed = TRUE]
  /\ UNCHANGED <<todoCache, isRefreshing, pendingRefresh, debounceTimer, timers,
                 trampolines, refreshes, now, events, refreshStarted, burst, window>>
  /\ UNCHANGED <<notifyTimers, notified, pass, snapshotHeld, fresh>>
  /\ UNCHANGED parserVars
  /\ UNCHANGED cacheVars
  /\ UNCHANGED aggVars

\* Mutant: the loop ends at the first callback that throws.
InvokeUntilThrow(callbacks, throwing) ==
  LET upTo == IF \E k \in 1..Len(callbacks) : callbacks[k].fn \in throwing
              THEN CHOOSE k \in 1..Len(callbacks) :
                     /\ callbacks[k].fn \in throwing
                     /\ \A j \in 1..(k - 1) : callbacks[j].fn \notin throwing
              ELSE Len(callbacks)
  IN [k \in 1..upTo |->
        [fn |-> callbacks[k].fn, reg |-> callbacks[k].reg,
         threw |-> callbacks[k].fn \in throwing]]

\* for (const callback of this.refreshCallbacks) { try { callback(); }
\* catch (error) { console.error(...); } }: the calls made, in order; the
\* callbacks in `throwing` throw.
InvokeAll(callbacks, throwing) ==
  [k \in 1..Len(callbacks) |->
     [fn |-> callbacks[k].fn, reg |-> callbacks[k].reg,
      threw |-> callbacks[k].fn \in throwing]]

\* The timer of notifyRefreshCallbacks fires.
NotifyFire ==
  /\ notifyTimers > 0
  /\ notifyTimers' = notifyTimers - 1
  /\ \E throwing \in SUBSET {refreshCallbacks[k].fn : k \in 1..Len(refreshCallbacks)} :
       notified' = [ran |-> TRUE, calls |-> InvokeAll(refreshCallbacks, throwing)]
  /\ UNCHANGED <<todoCache, isRefreshing, pendingRefresh, debounceTimer, timers,
                 trampolines, refreshes, now, events, refreshStarted, burst, window>>
  /\ fresh' = [fresh EXCEPT !.notifiedOf = fresh.latest]
  /\ UNCHANGED pass
  /\ UNCHANGED <<refreshCallbacks, handles, snapshotHeld>>
  /\ UNCHANGED parserVars
  /\ UNCHANGED cacheVars
  /\ UNCHANGED aggVars

Tick ==
  /\ now + TickMs <= MaxTicks * TickMs
  /\ now' = now + TickMs
  /\ UNCHANGED <<todoCache, isRefreshing, pendingRefresh, debounceTimer, timers,
                 trampolines, refreshes, events, refreshStarted, burst, window>>
  /\ UNCHANGED <<refreshCallbacks, notifyTimers, handles, notified, pass, snapshotHeld,
                 fresh>>
  /\ UNCHANGED parserVars
  /\ UNCHANGED cacheVars
  /\ UNCHANGED aggVars

NextWatcher ==
  \/ FsNotify
  \/ \E t \in timers : DebounceFire(t)
  \/ InvalidateCache
  \/ GetTodoGroups
  \/ \E r \in refreshes : \E result \in AggResults : RefreshCompletes(r, result)
  \/ TrampolineFire
  \/ NotifyFire
  \/ Tick

SpecWatcher == InitWatcher /\ [][NextWatcher]_vars

(***************************************************************************)
(* Subscribers: onDidRefresh, dispose and the notification                 *)
(***************************************************************************)
\* The refreshes are requested by at most MaxRequests calls.
MaxRequests == 2

NextSubscribers ==
  \/ \E fn \in Callbacks : OnDidRefresh(fn)
  \/ \E h \in 1..MaxHandles : Dispose(h)
  \/ events < MaxRequests /\ InvalidateCache
  \/ events < MaxRequests /\ GetTodoGroups
  \/ \E r \in refreshes : \E result \in AggResults : RefreshCompletes(r, result)
  \/ TrampolineFire
  \/ NotifyFire

SpecSubscribers == InitWatcher /\ [][NextSubscribers]_vars

(***************************************************************************)
(* The notification pass, callback by callback: a callback may dispose a   *)
(* subscription or register a new one                                      *)
(***************************************************************************)
\* What a callback does when invoked.
Effects ==
  {[kind |-> "return", h |-> 0, fn |-> ""]}
    \cup {[kind |-> "dispose", h |-> h, fn |-> ""] : h \in 1..Len(handles)}
    \cup {[kind |-> "register", h |-> 0, fn |-> fn] :
            fn \in IF Len(handles) < MaxHandles THEN Callbacks ELSE {}}

\* The timer of notifyRefreshCallbacks fires: the for...of loop starts at
\* the head of the array.
PassStart ==
  /\ ~pass.running
  /\ notifyTimers > 0
  /\ notifyTimers' = notifyTimers - 1
  /\ pass' = [running |-> TRUE, index |-> 0,
              atStart |-> {refreshCallbacks[k].reg : k \in 1..Len(refreshCallbacks)},
              calls |-> <<>>]
  /\ UNCHANGED <<todoCache, isRefreshing, pendingRefresh, debounceTimer, timers,
                 trampolines, refreshes, now, events, refreshStarted, burst, window>>
  /\ UNCHANGED <<refreshCallbacks, handles, notified, snapshotHeld, fresh>>
  /\ UNCHANGED parserVars
  /\ UNCHANGED cacheVars
  /\ UNCHANGED aggVars

\* One iteration of for (const callback of this.refreshCallbacks): the
\* callback at the iterator's position in the array as it is now is invoked
\* and does `effect`; the iterator moves on by one.
PassInvoke(effect) ==
  /\ pass.running
  /\ pass.index < Len(refreshCallbacks)
  /\ LET callback == refreshCallbacks[pass.index + 1]
         index == IF effect.kind = "dispose"
                  THEN IndexOf(refreshCallbacks, handles[effect.h].fn)
                  ELSE 0
         after == IF effect.kind = "dispose" /\ index # 0
                  THEN Splice(refreshCallbacks, index)
                  ELSE IF effect.kind = "register"
                  THEN Append(refreshCallbacks,
                              [fn |-> effect.fn, reg |-> Len(handles) + 1])
                  ELSE refreshCallbacks
     IN /\ refreshCallbacks' = after
        /\ handles' = IF effect.kind = "dispose"
                      THEN [handles EXCEPT ![effect.h].disposed = TRUE]
                      ELSE IF effect.kind = "register"
                      THEN Append(handles, [fn |-> effect.fn, disposed |-> FALSE])
                      ELSE handles
        /\ pass' = [pass EXCEPT !.index = @ + 1,
                                !.calls = Append(@, callback.reg)]
  /\ UNCHANGED <<todoCache, isRefreshing, pendingRefresh, debounceTimer, timers,
                 trampolines, refreshes, now, events, refreshStarted, burst, window>>
  /\ UNCHANGED <<notifyTimers, notified, snapshotHeld, fresh>>
  /\ UNCHANGED parserVars
  /\ UNCHANGED cacheVars
  /\ UNCHANGED aggVars

\* The iterator is past the end of the array: the loop and the timer's
\* callback end.
PassEnd ==
  /\ pass.running
  /\ pass.index >= Len(refreshCallbacks)
  /\ pass' = [pass EXCEPT !.running = FALSE]
  /\ fresh' = [fresh EXCEPT !.notifiedOf = fresh.latest]
  /\ UNCHANGED <<todoCache, isRefreshing, pendingRefresh, debounceTimer, timers,
                 trampolines, refreshes, now, events, refreshStarted, burst, window>>
  /\ UNCHANGED <<refreshCallbacks, notifyTimers, handles, notified, snapshotHeld>>
  /\ UNCHANGED parserVars
  /\ UNCHANGED cacheVars
  /\ UNCHANGED aggVars

\* The pass runs within one timer callback: nothing else runs meanwhile.
NextPass ==
  \/ ~pass.running /\ \E fn \in Callbacks : OnDidRefresh(fn)
  \/ ~pass.running /\ \E h \in 1..MaxHandles : Dispose(h)
  \/ ~pass.running /\ events < MaxRequests /\ InvalidateCache
  \/ ~pass.running /\ \E r \in refreshes : RefreshCompletes(r, <<"work">>)
  \/ ~pass.running /\ TrampolineFire
  \/ PassStart
  \/ \E effect \in Effects : PassInvoke(effect)
  \/ PassEnd

SpecPass == InitWatcher /\ [][NextPass]_vars

(***************************************************************************)
(* The invalidator run to rest: every timer fires, every aggregation ends  *)
(***************************************************************************)
\* Finitely many requests, and a notification arrives early enough for its
\* timer to expire within the time modelled.
NextLive ==
  \/ events < MaxRequests + 1 /\ now + DEBOUNCE_DELAY <= MaxTicks * TickMs /\ FsNotify
  \/ \E t \in timers : DebounceFire(t)
  \/ events < MaxRequests + 1 /\ InvalidateCache
  \/ events < MaxRequests + 1 /\ GetTodoGroups
  \/ \E r \in refreshes : \E result \in AggResults : RefreshCompletes(r, result)
  \/ TrampolineFire
  \/ NotifyFire
  \/ Tick

\* Time passes, expired timers run their callbacks and every aggregation
\* resolves.
Fairness ==
  /\ WF_vars(Tick)
  /\ WF_vars(\E t \in timers : DebounceFire(t))
  /\ WF_vars(\E r \in refreshes : \E result \in AggResults : RefreshCompletes(r, result))
  /\ WF_vars(TrampolineFire)
  /\ WF_vars(NotifyFire)

SpecLive == InitWatcher /\ [][NextLive]_vars /\ Fairness

(***************************************************************************)
(* A notification for a file the parser has cached                         *)
(***************************************************************************)
\* The file the notifications are about.
WatchedPath == <<"ws", "work", "a.todo">>

\* The watcher as constructed; the file was parsed once before (a view
\* called findAllTodoFiles) and both caches hold it at mtime 1.
InitInvalidate ==
  /\ fs = [p \in {WatchedPath} |-> [exists |-> TRUE, content |-> <<"a">>, mtime |-> 1]]
  /\ clock = 1
  /\ fileContentCache = <<[key |-> WatchedPath, content |-> <<"a">>, mtime |-> 1]>>
  /\ fileParseCache =
       <<[key |-> WatchedPath,
          result |-> ParseContent(<<"a">>, WatchedPath, "work"),
          mtime |-> 1]>>
  /\ calls = [c \in Slots |-> IdleCall]
  /\ started = 0
  /\ readCount = 0
  /\ parseCount = 0
  /\ cleared = NoClears
  /\ WatcherIdle
  /\ ParserIdle
  /\ AggregatorIdle

\* await TodoParser.findAllTodoFiles() of the refresh in flight: the file is
\* listed and parseTodoFile called for it, once per refresh.
RefreshParses(c) ==
  /\ refreshes # {}
  /\ started < refreshStarted
  /\ Call(c, WatchedPath, "work")

\* findAllTodoFiles resolves when the parse of the file has returned.
RefreshResolves(r) ==
  /\ started = refreshStarted
  /\ \A c \in Slots : ~InFlight(c)
  /\ RefreshCompletes(r, <<"work">>)

\* One refresh at a time: a trampoline timer fires when none is in flight.
NextInvalidate ==
  \/ \E t \in CacheTexts : Modify(WatchedPath, t)
  \/ FsNotify
  \/ \E t \in timers : DebounceFire(t)
  \/ \E c \in Slots : RefreshParses(c)
  \/ \E c \in Slots : StatSettles(c)
  \/ \E c \in Slots : StatResume(c)
  \/ \E c \in Slots : ReadSettles(c)
  \/ \E c \in Slots : ReadResume(c)
  \/ \E r \in refreshes : RefreshResolves(r)
  \/ refreshes = {} /\ TrampolineFire
  \/ NotifyFire
  \/ Tick

SpecInvalidate == InitInvalidate /\ [][NextInvalidate]_vars

(***************************************************************************)
(* Properties of the invalidator                                           *)
(***************************************************************************)
\* C5: at most one refreshCache call is in flight at any time.
C5_AtMostOneRefreshInFlight == Cardinality(refreshes) <= 1

\* C6: for the current burst of notifications (each less than DEBOUNCE_DELAY
\* after the one before, no invalidateCache call in between): exactly one
\* debounce timer is armed, due DEBOUNCE_DELAY after the last notification,
\* or its callback has run exactly once; the callback started a refresh, not
\* earlier than DEBOUNCE_DELAY after the last notification, unless a refresh
\* was in flight (then it set pendingRefresh); it never starts two.
C6_DebounceCoalesces ==
  (burst.size > 0 /\ ~burst.interrupted) =>
    /\ Cardinality(timers) + burst.started + burst.deferred = 1
    /\ \A t \in timers : t.id = debounceTimer /\ t.due = burst.last + DEBOUNCE_DELAY
    /\ burst.started = 1 => burst.startedAt >= burst.last + DEBOUNCE_DELAY
    /\ ~burst.deferredIdle

\* Three notifications in one burst, answered by one refresh.
C6_Witness ==
  /\ burst.size >= 3
  /\ ~burst.interrupted
  /\ burst.started = 1
  /\ timers = {}
  /\ refreshStarted = 1

\* C7: the requests that arrive while a refresh is in flight (they set
\* pendingRefresh) are answered by exactly one additional refresh: never
\* more than one trampoline is scheduled on their behalf.
C7_OneFollowUp == window.requests >= 1 => window.followUps <= 1

\* The registrations a sequence of callbacks or of calls is made of.
Regs(seq) == [k \in 1..Len(seq) |-> seq[k].reg]

\* A refreshCache call resumed after its await and ran to its end.
RefreshCompleted == Cardinality(refreshes') < Cardinality(refreshes)

\* The timer of a notification fired.
NotificationRan == notifyTimers' < notifyTimers

C28_DisposeRemovesOwnRegistration ==
  \A fn \in Callbacks :
    Cardinality({k \in 1..Len(refreshCallbacks) : refreshCallbacks[k].fn = fn})
      = Cardinality({h \in 1..Len(handles) :
                       handles[h].fn = fn /\ ~handles[h].disposed})

\* C29: once a refresh has completed and until invalidateCache runs, a
\* getTodoGroups call serves the stored snapshot and starts no refresh (the
\* aggregator is not invoked); it starts one only when no snapshot is held.
C29_CacheOrRefresh ==
  [][(GetTodoGroups /\ snapshotHeld) =>
       (refreshStarted' = refreshStarted /\ refreshes' = refreshes)]_vars

\* C30: the parseTodoFile call that a refresh triggered by a filesystem
\* notification makes for the notified file, the file being there, is served
\* from neither cache: the file is read and parsed again.
C30_NotificationForcesReparse ==
  [][\A c \in Slots :
       (/\ calls[c].pc # "done" /\ calls'[c].pc = "done"
        /\ calls'[c].filePath = WatchedPath
        /\ calls'[c].stats.ok
        /\ \E r \in refreshes : r.origin \in {"debounce", "trampoline"}) =>
         calls'[c].how \notin {"parseCache", "contentCache"}]_vars

\* No debounce timer armed, no trampoline scheduled, no refresh in flight.
Quiescent == timers = {} /\ trampolines = 0 /\ refreshes = {}

\* C35: the snapshot held when the invalidator comes to rest is the result
\* of a refresh that started after the last invalidation (a filesystem
\* notification or invalidateCache); and no refresh stores its result over
\* the snapshot of a refresh that started after it.
C35_NoStaleSnapshotAtRest ==
  [][/\ (Quiescent' /\ snapshotHeld') => fresh'.snapshotOf > fresh'.invalidatedAt
     /\ \A r \in refreshes \ refreshes' :
          ~(snapshotHeld /\ fresh.snapshotOf > r.id)]_vars

\* C36: after a filesystem notification or an invalidateCache call, made
\* when k refreshes had started, a refresh that started later completes and
\* a notification of the subscribers runs after it; and in the end
\* isRefreshing and pendingRefresh stay false with nothing left armed.
C36_NoInvalidationLost ==
  /\ \A k \in 0..(MaxRequests + 1) :
       (fresh.invalidatedAt = k) ~> (fresh.latest > k /\ fresh.notifiedOf > k)
  /\ <>[](~isRefreshing /\ ~pendingRefresh /\ Quiescent /\ notifyTimers = 0)

\* A request deferred during a refresh was followed up, and all is at rest.
C36_Witness ==
  /\ Quiescent
  /\ notifyTimers = 0
  /\ notified.ran
  /\ window.followUps >= 1
  /\ fresh.invalidatedAt >= 1
  /\ fresh.latest > fresh.invalidatedAt
  /\ fresh.notifiedOf > fresh.invalidatedAt
  /\ ~isRefreshing /\ ~pendingRefresh

\* The subscribers registered pairwise different functions.
DistinctCallbacks ==
  \A a, b \in 1..Len(handles) : handles[a].fn = handles[b].fn => a = b

\* C37: when a notification pass ends, every callback that was registered
\* when it started and is registered still has been invoked in it, and no
\* callback has been invoked twice (the callbacks being different
\* functions).
C37_PassInvokesEachOnce ==
  (~pass.running /\ pass.calls # <<>> /\ DistinctCallbacks) =>
    /\ \A reg \in pass.atStart :
         (\E k \in 1..Len(refreshCallbacks) : refreshCallbacks[k].reg = reg) =>
           \E j \in 1..Len(pass.calls) : pass.calls[j] = reg
    /\ \A i, j \in 1..Len(pass.calls) : pass.calls[i] = pass.calls[j] => i = j

(***************************************************************************)
(* Aggregator: TodoParser.findAllTodoFiles                                 *)
(***************************************************************************)
\* The files that may exist on disk.
AllFiles == {<<"ws", "todo", "work", "a.todo">>,
             <<"ws", "todo", "b.todo">>,
             <<"ws", "notes", "c.todo">>,
             <<"ws", "node_modules", "pkg", "d.todo">>,
             <<"ws", "todo", "readme.md">>,
             <<"ws2", "e.todo">>}

\* vscode.workspace.workspaceFolders: undefined, one root, two roots, two
\* roots of which one lies inside the other.
Workspaces == {NoWorkspace,
               [defined |-> TRUE, list |-> <<<<"ws">>>>],
               [defined |-> TRUE, list |-> <<<<"ws">>, <<"ws2">>>>],
               [defined |-> TRUE, list |-> <<<<"ws">>, <<"ws", "todo">>>>]}

\* xtodo.todoFolders: relative and absolute entries, a folder inside another,
\* a folder that does not exist, a path that is a file.
Rel(segs) == [absolute |-> FALSE, segs |-> segs]

Abs(segs) == [absolute |-> TRUE, segs |-> segs]

Configs == {<<>>,
            <<Rel(<<"todo">>)>>,
            <<Rel(<<"todo">>), Rel(<<"notes">>)>>,
            <<Rel(<<"todo">>), Rel(<<"todo", "work">>)>>,
            <<Abs(<<"ws", "notes">>), Rel(<<"todo">>)>>,
            <<Rel(<<"missing">>), Rel(<<"notes">>)>>,
            <<Rel(<<"todo", "b.todo">>), Rel(<<"notes">>)>>}

IsPrefix(p, q) == Len(p) <= Len(q) /\ SubSeq(q, 1, Len(p)) = p

\* path.relative(from, to) for a path below `from`; split(path.sep).
Relative(from, to) == SubSeq(to, Len(from) + 1, Len(to))

\* The glob **/*.todo on the file's name.
IsTodoName(name) == name \in {"a.todo", "b.todo", "c.todo", "d.todo", "e.todo"}

\* The exclude glob **/node_modules/**.
Excluded(f) == \E i \in 1..(Len(f) - 1) : f[i] = "node_modules"

WorkspaceRoots == {workspaceFolders.list[i] : i \in 1..Len(workspaceFolders.list)}

\* vscode.workspace.findFiles(new RelativePattern(base, '**/*.todo'),
\* '**/node_modules/**'): the matching files of the workspace below base.
\* The order of the matches is not specified: `order` is the order of listing.
Matches(base, f) ==
  /\ f \in tree
  /\ IsPrefix(base, f) /\ Len(f) > Len(base)
  /\ \E w \in WorkspaceRoots : IsPrefix(w, f)
  /\ IsTodoName(Basename(f))
  /\ ~Excluded(f)

findFiles(base, order) == SelectSeq(order, LAMBDA f : Matches(base, f))

\* fs.promises.stat(folderPath) resolves and isDirectory().
IsDirectory(p) == \E f \in tree : IsPrefix(p, f) /\ Len(f) > Len(p)

\* The TodoFile parseTodoFile resolves to (its items are left out here).
TodoFileOf(f, groupName) == [path |-> f, name |-> Basename(f), group |-> groupName]

\* for (const {groupName, todoFileObj} of parsedFiles) { ... push(todoFileObj) }
RECURSIVE Organise(_, _, _)
Organise(parsedFiles, i, acc) ==
  IF i > Len(parsedFiles) THEN acc
  ELSE Organise(parsedFiles, i + 1,
                AddToGroups(acc, parsedFiles[i].groupName, parsedFiles[i].todoFileObj))

\* What a search of one root settles to: its groups, or a rejection.
Resolved(gs) == [ok |-> TRUE, groups |-> gs]

Rejected == [ok |-> FALSE, groups |-> <<>>]

\* The search roots the settings name.
SearchRoots ==
  IF Len(todoFolders) = 0 THEN WorkspaceRoots
  ELSE {todoFolders[k].segs : k \in {k \in 1..Len(todoFolders) : todoFolders[k].absolute}}
       \cup {w \o todoFolders[k].segs :
               w \in WorkspaceRoots,
               k \in {k \in 1..Len(todoFolders) : ~todoFolders[k].absolute}}

\* Mutant: the error of one root's search is thrown on.
CatchRootRethrow(outcome) == outcome

\* try { ... } catch (error) { console.error(...); return []; } around the
\* search of one root.
CatchRoot(outcome) == IF outcome.ok THEN outcome ELSE Resolved(<<>>)

\* `failing` holds the roots whose findFiles rejects.
searchTodoFolder(folderPath, defaultGroupName, order, failing) ==
  CatchRoot(
    IF ~IsDirectory(folderPath) THEN Resolved(<<>>)
    ELSE IF folderPath \in failing THEN Rejected
    ELSE LET todoFiles == findFiles(folderPath, order)
             parsedFiles ==
               [i \in 1..Len(todoFiles) |->
                 LET pathParts == Relative(folderPath, todoFiles[i])
                     groupName == IF Len(pathParts) > 1 THEN pathParts[1]
                                  ELSE defaultGroupName
                 IN [groupName |-> groupName,
                     todoFileObj |-> TodoFileOf(todoFiles[i], groupName)]]
         IN Resolved(Organise(parsedFiles, 1, <<>>)))

\* vscode.workspace.asRelativePath(todoFile).split(path.sep): relative to the
\* innermost workspace folder that holds the file, led by that folder's name
\* when the workspace has several folders.
asRelativePath(f) ==
  LET holding == {w \in WorkspaceRoots : IsPrefix(w, f)}
  IN IF holding = {} THEN f
     ELSE LET w == CHOOSE w \in holding : \A v \in holding : Len(v) <= Len(w)
          IN (IF Len(workspaceFolders.list) > 1 THEN <<Basename(w)>> ELSE <<>>)
               \o Relative(w, f)

\* let groupName = <the default group's name, "ungrouped" in Chinese>
Ungrouped == "ungrouped"

\* results.flat()
RECURSIVE Flat(_)
Flat(lists) == IF lists = <<>> THEN <<>> ELSE Head(lists) \o Flat(Tail(lists))

\* Mutant: a group found again replaces the files merged so far.
RECURSIVE MergeGroupsReplace(_, _, _)
MergeGroupsReplace(allGroups, i, acc) ==
  IF i > Len(allGroups) THEN acc
  ELSE LET group == allGroups[i]
           k == GroupIndex(acc, group.name)
       IN MergeGroupsReplace(allGroups, i + 1,
            IF k = 0
            THEN Append(acc, [name |-> group.name, files |-> group.files])
            ELSE [acc EXCEPT ![k].files = group.files])

\* if (!mergedGroups.has(group.name)) mergedGroups.set(...);
\* mergedGroups.get(group.name).files.push(...group.files)
RECURSIVE MergeGroups(_, _, _)
MergeGroups(allGroups, i, acc) ==
  IF i > Len(allGroups) THEN acc
  ELSE LET group == allGroups[i]
           k == GroupIndex(acc, group.name)
       IN MergeGroups(allGroups, i + 1,
            IF k = 0
            THEN Append(acc, [name |-> group.name, files |-> group.files])
            ELSE [acc EXCEPT ![k].files = @ \o group.files])

\* Promise.all(promises): rejects when one of them rejects.
AllResolved(outcomes) == \A k \in 1..Len(outcomes) : outcomes[k].ok

GroupsOf(outcomes) == Flat([k \in 1..Len(outcomes) |-> outcomes[k].groups])

\* workspaceFolders.map(async folder => { try { ... } catch { return []; } }):
\* what the search of each workspace folder settles to.
workspacePromises(order, failing) ==
  LET folders == workspaceFolders.list
  IN [n \in 1..Len(folders) |->
       CatchRoot(
         IF folders[n] \in failing THEN Rejected
         ELSE LET todoFiles == findFiles(folders[n], order)
                  parsedFiles ==
                    [i \in 1..Len(todoFiles) |->
                      LET pathParts == asRelativePath(todoFiles[i])
                          groupName == IF Len(pathParts) > 1 THEN pathParts[1]
                                       ELSE Ungrouped
                      IN [groupName |-> groupName,
                          todoFileObj |-> TodoFileOf(todoFiles[i], groupName)]]
              IN Resolved(Organise(parsedFiles, 1, <<>>)))]

searchWorkspaceFolders(order, failing) ==
  LET results == workspacePromises(order, failing)
  IN IF AllResolved(results)
     THEN Resolved(MergeGroups(GroupsOf(results), 1, <<>>))
     ELSE Rejected

\* Mutant: every configured folder is taken as relative.
IsAbsoluteNever(folder) == FALSE

\* path.isAbsolute(folderPath)
IsAbsolute(folder) == folder.absolute

\* todoFolders.map(async folderPath => ...): what the search of each
\* configured folder settles to, one outcome per root it names.
folderPromises(order, failing) ==
  LET folders == workspaceFolders.list
  IN [k \in 1..Len(todoFolders) |->
       LET folderPath == todoFolders[k].segs
       IN IF IsAbsolute(todoFolders[k])
          THEN <<searchTodoFolder(folderPath, Basename(folderPath),
                                  order, failing)>>
          ELSE [n \in 1..Len(folders) |->
                  searchTodoFolder(folders[n] \o folderPath,
                                   Basename(folderPath), order, failing)]]

\* Promise.all keeps the order of its inputs; the outer catch returns [].
findAllTodoFiles(order, failing) ==
  IF ~workspaceFolders.defined THEN <<>>
  ELSE IF Len(todoFolders) = 0
  THEN LET outcome == searchWorkspaceFolders(order, failing)
       IN IF outcome.ok THEN outcome.groups ELSE <<>>
  ELSE LET results == folderPromises(order, failing)
       IN IF AllResolved(Flat(results))
          THEN MergeGroups(GroupsOf(Flat(results)), 1, <<>>)
          ELSE <<>>

\* The orders in which the files of S may be listed.
Orders(S) ==
  {o \in [1..Cardinality(S) -> S] : \A i, j \in 1..Cardinality(S) : o[i] = o[j] => i = j}

InitAggregator ==
  /\ AggregatorIdle
  /\ ParserIdle
  /\ CacheIdle
  /\ WatcherIdle

OpenWorkspace(w) ==
  /\ w # workspaceFolders
  /\ workspaceFolders' = w
  /\ found' = NoFound
  /\ UNCHANGED <<todoFolders, tree>>
  /\ UNCHANGED parserVars
  /\ UNCHANGED cacheVars
  /\ UNCHANGED watcherVars

Configure(c) ==
  /\ c # todoFolders
  /\ todoFolders' = c
  /\ found' = NoFound
  /\ UNCHANGED <<workspaceFolders, tree>>
  /\ UNCHANGED parserVars
  /\ UNCHANGED cacheVars
  /\ UNCHANGED watcherVars

CreateFile(f) ==
  /\ f \notin tree
  /\ tree' = tree \cup {f}
  /\ found' = NoFound
  /\ UNCHANGED <<workspaceFolders, todoFolders>>
  /\ UNCHANGED parserVars
  /\ UNCHANGED cacheVars
  /\ UNCHANGED watcherVars

DeleteFile(f) ==
  /\ f \in tree
  /\ tree' = tree \ {f}
  /\ found' = NoFound
  /\ UNCHANGED <<workspaceFolders, todoFolders>>
  /\ UNCHANGED parserVars
  /\ UNCHANGED cacheVars
  /\ UNCHANGED watcherVars

\* One call of findAllTodoFiles, the disk and the settings unchanged while
\* it runs; `order` is the order in which findFiles lists the files that lie
\* under some search root.
FindAllTodoFiles ==
  /\ \E order \in Orders({f \in tree : \E r \in SearchRoots : Matches(r, f)}) :
       \E failing \in SUBSET SearchRoots :
         found' = [done |-> TRUE, groups |-> findAllTodoFiles(order, failing),
                   failed |-> failing, order |-> order]
  /\ UNCHANGED <<workspaceFolders, todoFolders, tree>>
  /\ UNCHANGED parserVars
  /\ UNCHANGED cacheVars
  /\ UNCHANGED watcherVars

NextAggregator ==
  \/ \E w \in Workspaces : OpenWorkspace(w)
  \/ \E c \in Configs : Configure(c)
  \/ \E f \in AllFiles : CreateFile(f)
  \/ \E f \in AllFiles : DeleteFile(f)
  \/ FindAllTodoFiles

SpecAggregator == InitAggregator /\ [][NextAggregator]_vars

(***************************************************************************)
(* Properties of the aggregator                                            *)
(***************************************************************************)
Matched == {f \in AllFiles : \E r \in SearchRoots : Matches(r, f)}

Occurrences(f) ==
  Cardinality({ij \in (1..Len(found.groups)) \X (1..(2 * Cardinality(AllFiles))) :
                 /\ ij[2] <= Len(found.groups[ij[1]].files)
                 /\ found.groups[ij[1]].files[ij[2]].path = f})

\* C8: every .todo file matched under some search root appears exactly once
\* in the union of the file lists of the groups findAllTodoFiles returns
\* (when no root's enumeration failed).
C8_EveryMatchedFileExactlyOnce ==
  (found.done /\ found.failed = {}) => \A f \in Matched : Occurrences(f) = 1

\* The roots that are directories and whose enumeration did not fail.
GoodRoots == {r \in SearchRoots : IsDirectory(r) /\ r \notin found.failed}

\* C12: findAllTodoFiles always resolves; a root that is missing, is not a
\* directory or whose enumeration failed contributes no file, and every file
\* matched under some other root is in the result.
C12_FailureIsolation ==
  found.done =>
    \A f \in AllFiles :
      IF \E r \in GoodRoots : Matches(r, f)
      THEN Occurrences(f) >= 1
      ELSE Occurrences(f) = 0

\* The enumeration of one root failed, a file matched under it is absent and
\* a file of another root is present.
C12_Witness ==
  /\ found.done
  /\ \E r \in found.failed : \E f \in AllFiles :
       Matches(r, f) /\ Occurrences(f) = 0
  /\ \E f \in AllFiles : Occurrences(f) = 1

\* The first segment of f's path relative to root when f lies at least one
\* directory below root, and rootName otherwise.
NameUnder(root, f, rootName) ==
  IF Len(Relative(root, f)) > 1 THEN Relative(root, f)[1] ELSE rootName

\* The group names the derivation rule allows for file f: one per search root
\* that f is found under.
GroupNamesFor(f) ==
  IF Len(todoFolders) = 0
  THEN {NameUnder(w, f, Ungrouped) : w \in {w \in WorkspaceRoots : Matches(w, f)}}
  ELSE UNION {
         {NameUnder(r, f, Basename(todoFolders[k].segs)) :
            r \in {r \in (IF todoFolders[k].absolute
                           THEN {todoFolders[k].segs}
                           ELSE {w \o todoFolders[k].segs : w \in WorkspaceRoots}) :
                     Matches(r, f)}} :
         k \in 1..Len(todoFolders)}

\* C22: the name of the group a file is listed in is the first segment of
\* the file's path relative to its search root when the file is nested, and
\* otherwise the base name of the configured folder or, in whole-workspace
\* mode, the fixed label; the group field of the file is that name.
C22_GroupNameDerivation ==
  found.done =>
    \A g \in 1..Len(found.groups) :
      \A j \in 1..Len(found.groups[g].files) :
        LET file == found.groups[g].files[j]
        IN /\ file.group = found.groups[g].name
           /\ found.groups[g].name \in GroupNamesFor(file.path)

\* The groups each root's search resolved to, root after root.
PerRootGroups ==
  IF Len(todoFolders) = 0
  THEN GroupsOf(workspacePromises(found.order, found.failed))
  ELSE GroupsOf(Flat(folderPromises(found.order, found.failed)))

\* The files of the per-root groups called name, concatenated root after root.
ConcatenatedFiles(name) ==
  LET named == SelectSeq(PerRootGroups, LAMBDA g : g.name = name)
  IN Flat([k \in 1..Len(named) |-> named[k].files])

\* C23: the list findAllTodoFiles returns holds at most one group per name,
\* one for every name some root produced, and the files of each group are
\* the files of all per-root groups of that name, concatenated: a group
\* found under a later root appends to the files and never replaces them.
C23_MergeByGroupName ==
  (found.done /\ workspaceFolders.defined) =>
    /\ \A i, j \in 1..Len(found.groups) :
         found.groups[i].name = found.groups[j].name => i = j
    /\ {found.groups[i].name : i \in 1..Len(found.groups)}
         = {PerRootGroups[k].name : k \in 1..Len(PerRootGroups)}
    /\ \A i \in 1..Len(found.groups) :
         found.groups[i].files = ConcatenatedFiles(found.groups[i].name)

\* Two roots produced a group of the same name, each with a file; the one
\* merged group holds the files of both.
C23_Witness ==
  /\ found.done
  /\ \E i \in 1..Len(found.groups) :
       /\ Len(found.groups[i].files) >= 2
       /\ Cardinality({k \in 1..Len(PerRootGroups) :
                         PerRootGroups[k].name = found.groups[i].name}) >= 2

\* The folders the settings name: an absolute entry as given, a relative
\* entry below every workspace folder; every workspace folder when the list
\* is empty.
NamedFolders ==
  IF todoFolders = <<>> THEN WorkspaceRoots
  ELSE UNION {IF todoFolders[k].absolute
              THEN {todoFolders[k].segs}
              ELSE {w \o todoFolders[k].segs : w \in WorkspaceRoots} :
              k \in 1..Len(todoFolders)}

\* The .todo files on disk below folder r, node_modules left out.
TodoFilesBelow(r) ==
  {f \in tree : /\ IsPrefix(r, f) /\ Len(f) > Len(r)
                /\ IsTodoName(Basename(f)) /\ ~Excluded(f)}

ListedPaths ==
  {found.groups[g].files[j].path :
     <<g, j>> \in {gj \in (1..Len(found.groups)) \X (1..(2 * Cardinality(AllFiles))) :
                    gj[2] <= Len(found.groups[gj[1]].files)}}

====
